---- MODULE Spec2Model ----
(***************************************************************************)
(* Bursary management system: the database tables of bursary/models.py and *)
(* the request handlers of bursary/views.py, bursary/forms.py and          *)
(* bursary/admin.py as a state machine.  A table is a set of rows, a row a *)
(* record with its primary key "id"; a handler is one action, taken by an  *)
(* acting user with form data drawn from a small set.  Text is a sequence  *)
(* of one-character strings so that strip/lower/startswith/isdigit are     *)
(* computed, not assumed.                                                  *)
(***************************************************************************)
EXTENDS Integers, Sequences, FiniteSets, TLC

\* ------------------------------------------------------------------ bounds
MaxStudentUsers == 2      \* signups accepted (User and Student rows created)
MaxApplications == 2      \* BursaryApplication rows ever inserted
MaxSupportRequests == 1   \* SupportRequest rows ever inserted
MaxSiteProfiles == 2      \* SiteProfile rows ever inserted
MaxDay == 2                 \* the date runs over days 1..MaxDay
MaxLog == 2
MaxInflight == 2               \* OfficerActivityLog rows kept in the model

\* ------------------------------------------------------------ null values
None == "None"            \* NULL in a foreign-key column (keys are strings)
NoneText == <<"None">>    \* None / NULL where the value is text
NoDate == {}              \* NULL date; the date of day d is {d}

\* the default of SiteProfile.branding_name and the fallback of site_branding
BursaryFlow == <<"B","u","r","s","a","r","y","F","l","o","w">>

\* --------------------------------------------------------------- text
UpperChars == <<"A","B","C","D","E","F","G","H","I","J","K","L","M",
                "N","O","P","Q","R","S","T","U","V","W","X","Y","Z">>
LowerChars == <<"a","b","c","d","e","f","g","h","i","j","k","l","m",
                "n","o","p","q","r","s","t","u","v","w","x","y","z">>
DigitChars == {"0","1","2","3","4","5","6","7","8","9"}

LowerChar(c) ==
    IF \E i \in 1..26 : UpperChars[i] = c
    THEN LowerChars[CHOOSE i \in 1..26 : UpperChars[i] = c] ELSE c
UpperChar(c) ==
    IF \E i \in 1..26 : LowerChars[i] = c
    THEN UpperChars[CHOOSE i \in 1..26 : LowerChars[i] = c] ELSE c

\* str.lower(), str.upper()
StrLower(s) == [i \in 1..Len(s) |-> LowerChar(s[i])]
StrUpper(s) == [i \in 1..Len(s) |-> UpperChar(s[i])]

\* str.strip(): leading and trailing blanks removed
RECURSIVE LStrip(_)
LStrip(s) == IF s # <<>> /\ Head(s) = " " THEN LStrip(Tail(s)) ELSE s
RECURSIVE RStrip(_)
RStrip(s) ==
    IF s # <<>> /\ s[Len(s)] = " " THEN RStrip(SubSeq(s, 1, Len(s) - 1)) ELSE s
Strip(s) == RStrip(LStrip(s))

\* str.replace(" ", "")
RECURSIVE RemoveSpaces(_)
RemoveSpaces(s) ==
    IF s = <<>> THEN <<>>
    ELSE IF Head(s) = " " THEN RemoveSpaces(Tail(s))
    ELSE <<Head(s)>> \o RemoveSpaces(Tail(s))

\* str.startswith(prefix)
StartsWith(s, prefix) ==
    Len(prefix) <= Len(s) /\ SubSeq(s, 1, Len(prefix)) = prefix

\* str.isdigit(): false for the empty string
IsDigit(s) == s # <<>> /\ \A i \in 1..Len(s) : s[i] \in DigitChars

\* a text value is truthy unless it is None or empty
Truthy(v) == v # NoneText /\ v # <<>>

\* ---------------------------------------------------- mock verification
\* MOCK_RULES, keyed by the lower-cased scope name
MockRuleKeys == { <<"s","a","m","b","u","r","u">>, <<"n","a","i","r","o","b","i">> }
MOCK_RULES(key) ==
    IF key = <<"s","a","m","b","u","r","u">>
    THEN [id_prefix |-> <<"2">>, nemis_prefix |-> <<"S","A">>,
          constituency |-> <<"S","a","m","b","u","r","u"," ","W","e","s","t">>]
    ELSE [id_prefix |-> <<"1">>, nemis_prefix |-> <<"N","A">>,
          constituency |-> <<"W","e","s","t","l","a","n","d","s">>]
\* MOCK_RULES.get(key) finds a rule
HasRule(key) == key \in MockRuleKeys

DefaultCounty == <<"D","e","f","a","u","l","t","C","o","u","n","t","y">>
DefaultConstituency ==
    <<"D","e","f","a","u","l","t","C","o","n","s","t","i","t","u","e","n","c","y">>

\* x or y
PyOr(x, y) == IF Truthy(x) THEN x ELSE y

\* verify_id whose fallback takes any string of digits, whatever its length
verify_id_any_length(id_number, county_name, constituency_name) ==
    IF ~Truthy(id_number) THEN <<FALSE, "ID number is required.", NoneText, NoneText>>
    ELSE LET context_name == PyOr(county_name, constituency_name) IN
    IF ~Truthy(context_name)
    THEN <<FALSE, "Site profile county/constituency not configured.", NoneText, NoneText>>
    ELSE LET key == StrLower(Strip(context_name))
             rules == MOCK_RULES(key) IN
    IF HasRule(key)
    THEN IF StartsWith(id_number, rules.id_prefix)
         THEN <<TRUE, "ID verified successfully.",
                PyOr(county_name, DefaultCounty),
                PyOr(constituency_name, rules.constituency)>>
         ELSE <<FALSE, "ID does not match.", NoneText, NoneText>>
    ELSE IF IsDigit(id_number)
    THEN <<TRUE, "ID verified under default rules.",
           PyOr(county_name, DefaultCounty),
           PyOr(constituency_name, DefaultConstituency)>>
    ELSE <<FALSE, "Invalid ID format.", NoneText, NoneText>>

\* verify_nemis that turns the number away unless the guardian ID matches too
verify_nemis_with_guardian(nemis_number, county_name, constituency_name, guardian_id) ==
    IF ~Truthy(nemis_number) THEN <<FALSE, "NEMIS number is required.", NoneText, NoneText>>
    ELSE LET context_name == PyOr(county_name, constituency_name) IN
    IF ~Truthy(context_name)
    THEN <<FALSE, "Site profile county/constituency not configured.", NoneText, NoneText>>
    ELSE LET key == StrLower(Strip(context_name))
             rules == MOCK_RULES(key) IN
    IF HasRule(key)
    THEN IF StartsWith(StrUpper(nemis_number), rules.nemis_prefix)
            /\ Truthy(guardian_id) /\ StartsWith(guardian_id, rules.id_prefix)
         THEN <<TRUE, "NEMIS verified successfully.",
                PyOr(county_name, DefaultCounty),
                PyOr(constituency_name, rules.constituency)>>
         ELSE <<FALSE, "NEMIS does not match.", NoneText, NoneText>>
    ELSE IF Len(nemis_number) >= 4
    THEN <<TRUE, "NEMIS verified under default rules.",
           PyOr(county_name, DefaultCounty),
           PyOr(constituency_name, DefaultConstituency)>>
    ELSE <<FALSE, "Invalid NEMIS format.", NoneText, NoneText>>

\* verify_id: <<is_valid, message, verified_county, verified_constituency>>
verify_id(id_number, county_name, constituency_name) ==
    IF ~Truthy(id_number) THEN <<FALSE, "ID number is required.", NoneText, NoneText>>
    ELSE LET context_name == PyOr(county_name, constituency_name) IN
    IF ~Truthy(context_name)
    THEN <<FALSE, "Site profile county/constituency not configured.", NoneText, NoneText>>
    ELSE LET key == StrLower(Strip(context_name))
             rules == MOCK_RULES(key) IN
    IF HasRule(key)
    THEN IF StartsWith(id_number, rules.id_prefix)
         THEN <<TRUE, "ID verified successfully.",
                PyOr(county_name, DefaultCounty),
                PyOr(constituency_name, rules.constituency)>>
         ELSE <<FALSE, "ID does not match.", NoneText, NoneText>>
    ELSE IF IsDigit(id_number) /\ Len(id_number) >= 6
    THEN <<TRUE, "ID verified under default rules.",
           PyOr(county_name, DefaultCounty),
           PyOr(constituency_name, DefaultConstituency)>>
    ELSE <<FALSE, "Invalid ID format.", NoneText, NoneText>>

\* verify_nemis: the guardian check changes the message only
verify_nemis(nemis_number, county_name, constituency_name, guardian_id) ==
    IF ~Truthy(nemis_number) THEN <<FALSE, "NEMIS number is required.", NoneText, NoneText>>
    ELSE LET context_name == PyOr(county_name, constituency_name) IN
    IF ~Truthy(context_name)
    THEN <<FALSE, "Site profile county/constituency not configured.", NoneText, NoneText>>
    ELSE LET key == StrLower(Strip(context_name))
             rules == MOCK_RULES(key) IN
    IF HasRule(key)
    THEN IF StartsWith(StrUpper(nemis_number), rules.nemis_prefix)
         THEN IF Truthy(guardian_id) /\ StartsWith(guardian_id, rules.id_prefix)
              THEN <<TRUE, "NEMIS verified successfully.",
                     PyOr(county_name, DefaultCounty),
                     PyOr(constituency_name, rules.constituency)>>
              ELSE <<TRUE, "NEMIS verified (guardian check skipped).",
                     PyOr(county_name, DefaultCounty),
                     PyOr(constituency_name, rules.constituency)>>
         ELSE <<FALSE, "NEMIS does not match.", NoneText, NoneText>>
    ELSE IF Len(nemis_number) >= 4
    THEN <<TRUE, "NEMIS verified under default rules.",
           PyOr(county_name, DefaultCounty),
           PyOr(constituency_name, DefaultConstituency)>>
    ELSE <<FALSE, "Invalid NEMIS format.", NoneText, NoneText>>

\* ------------------------------------------------------- reference data
\* County and Constituency primary keys, names and the parent county
Counties == {"k1", "k2"}
Constituencies == {"c1", "c2"}
CountyName(k) ==
    IF k = "k1" THEN <<"S","a","m","b","u","r","u">>
    ELSE <<"K","i","s","u","m","u">>
ConstituencyName(c) ==
    IF c = "c1" THEN <<"S","a","m","b","u","r","u"," ","W","e","s","t">>
    ELSE <<"K","i","s","u","m","u"," ","E","a","s","t">>
ConstituencyCounty(c) == IF c = "c1" THEN "k1" ELSE "k2"

\* ApplicationStatus and BursaryType choices
ApplicationStatus == {"pending", "verified", "approved", "rejected"}
BursaryType == {"county", "constituency"}

\* ------------------------------------------------------------------ state
VARIABLES
    counties,         \* County rows (primary keys)
    constituencies,   \* Constituency rows (primary keys)
    siteProfiles,     \* SiteProfile rows
    today,            \* timezone.now().date()
    users,            \* auth User rows
    students,         \* Student rows
    guardians,        \* Guardian rows
    siblings,         \* Sibling rows
    applications,     \* BursaryApplication rows
    documents,        \* SupportingDocument rows
    officerProfiles,  \* OfficerProfile rows
    activityLog,      \* OfficerActivityLog rows, oldest first
    supportRequests,  \* SupportRequest rows
    seq,              \* last primary key given out, per table
    inflight,         \* apply_bursary requests between their checks and their writes
    response          \* the last request and what it returned

vars == <<counties, constituencies, siteProfiles, today, users, students,
          guardians, siblings, applications, documents, officerProfiles,
          activityLog, supportRequests, seq, inflight, response>>

\* the tables no view of the student workflow writes
locations == <<counties, constituencies>>
family == <<guardians, siblings, documents>>

\* request.user: AnonymousUser, or the User row with this primary key
Anonymous == [is_authenticated |-> FALSE, id |-> -1]
UserOf(pk) == [is_authenticated |-> TRUE, id |-> pk]
Actors == {Anonymous} \cup {UserOf(u.id) : u \in users}

\* what a request returned: the view, the acting user, the primary key the URL
\* named, the kind of response and the applications whose data it carries
Response(view, user, target, status, apps) ==
    [view |-> view, user |-> user, target |-> target, status |-> status, apps |-> apps]

\* queryset.first() / .last() of a table ordered by primary key
First(rows) == CHOOSE r \in rows : \A q \in rows : r.id <= q.id
Last(rows) == CHOOSE r \in rows : \A q \in rows : r.id >= q.id

\* ------------------------------------------------------------ initial data
\* Officer accounts and one user with no profile exist before the first
\* request; the deployment starts as the constituency-level site of c1.
InitUsers ==
    { [id |-> i, username |-> <<"o", ToString(i)>>, email |-> <<"o", ToString(i), "@">>,
       password |-> "officer-pw", is_active |-> TRUE] : i \in 1..5 }
InitOfficerProfiles ==
    { [id |-> 1, user |-> 1, constituency |-> "c1", bursary_type |-> "constituency",
       is_active |-> TRUE, is_manager |-> TRUE],
      [id |-> 2, user |-> 2, constituency |-> "c2", bursary_type |-> "constituency",
       is_active |-> TRUE, is_manager |-> FALSE],
      [id |-> 3, user |-> 3, constituency |-> "c1", bursary_type |-> "county",
       is_active |-> TRUE, is_manager |-> FALSE],
      [id |-> 4, user |-> 4, constituency |-> None, bursary_type |-> "county",
       is_active |-> TRUE, is_manager |-> FALSE] }
InitSiteProfiles ==
    { [id |-> 1, county |-> None, constituency |-> "c1", is_active |-> TRUE,
       application_deadline |-> NoDate,
       branding_name |-> BursaryFlow, branding_logo |-> NoneText] }

InitData ==
    /\ counties = Counties
    /\ constituencies = Constituencies
    /\ siteProfiles = InitSiteProfiles
    /\ today = 1
    /\ users = InitUsers
    /\ students = {}
    /\ guardians = {}
    /\ siblings = {}
    /\ applications = {}
    /\ documents = {}
    /\ officerProfiles = InitOfficerProfiles
    /\ activityLog = <<>>
    /\ supportRequests = {}
    /\ seq = [user |-> 5, student |-> 0, guardian |-> 0, sibling |-> 0,
              application |-> 0, document |-> 0, site |-> 1, support |-> 0]
    /\ inflight = {}

Init ==
    /\ InitData
    /\ response = Response("none", Anonymous, 0, "none", {})

\* ---------------------------------------------------------------- lookups
\* SiteProfile.get_active(): the rows with is_active, lowest primary key first
ActiveSites == {p \in siteProfiles : p.is_active}
HasActiveSite == ActiveSites # {}
get_active == First(ActiveSites)

\* the check with a strict comparison: the deadline date itself is closed
is_application_open_before(site) ==
    \/ site.application_deadline = NoDate
    \/ \A d \in site.application_deadline : today < d

\* SiteProfile.is_application_open()
is_application_open(site) ==
    site.application_deadline = NoDate
    \/ \A d \in site.application_deadline : today <= d

\* SiteProfile.level
level(site) ==
    IF site.county # None THEN "county"
    ELSE IF site.constituency # None THEN "constituency" ELSE None

\* the name of a referenced County / Constituency, None for a null reference
NameOfCounty(k) == IF k = None THEN NoneText ELSE CountyName(k)
NameOfConstituency(c) == IF c = None THEN NoneText ELSE ConstituencyName(c)

\* Student.objects.filter(user=request.user)
StudentsOf(actor) == {s \in students : actor.is_authenticated /\ s.user = actor.id}
\* request.user.student_profile (the related_name of Student.user)
HasStudentProfile(actor) == StudentsOf(actor) # {}
student_profile(actor) == First(StudentsOf(actor))
\* getattr(request.user, "student", None): User has no attribute "student"
\* (the reverse accessor is student_profile), so the default is returned
HasStudentAttr(actor) == FALSE

\* request.user.officer_profile (raises DoesNotExist when there is none)
OfficerProfilesOf(actor) ==
    {o \in officerProfiles : actor.is_authenticated /\ o.user = actor.id}
HasOfficerProfile(actor) == OfficerProfilesOf(actor) # {}
officer_profile(actor) == First(OfficerProfilesOf(actor))

\* BursaryApplication.objects.filter(student=student); Meta.ordering is
\* -date_applied, so first() is the newest row and last() the oldest
ApplicationsOf(student_id) == {a \in applications : a.student = student_id}

\* log_officer_action / OfficerActivityLog.objects.create
\* a log call that stores its entry twice
LogAppendTwice(log, officer, action) ==
    Append(Append(log, [officer |-> officer.id, action |-> action]),
           [officer |-> officer.id, action |-> action])
LogAppend(log, officer, action) == Append(log, [officer |-> officer.id, action |-> action])

\* ------------------------------------------------------------ form inputs
Id200001 == <<"2","0","0","0","0","1">>
Id123456 == <<"1","2","3","4","5","6">>
NemisSA01 == <<"S","A","0","1">>
ValidPhone == <<"0","7","1","2","3","4","5","6","7","8">>
ShortPhone == <<"1","2","3","4","5">>

\* StudentForm.clean_phone / StudentProfileForm.clean_phone: accepted or not
clean_phone_ok(raw) ==
    LET phone == RemoveSpaces(Strip(raw)) IN
    IsDigit(phone) /\ Len(phone) = 10
    /\ (StartsWith(phone, <<"0","7">>) \/ StartsWith(phone, <<"0","1">>))
clean_phone(raw) == RemoveSpaces(Strip(raw))

\* ----------------------------------------------------------------- signup
\* VerifiedStudentSignupForm: clean_id_number, clean_nemis_number, clean and
\* the ModelForm's unique checks on admission_number and email
SignupCleanedId(d) ==
    LET v == Strip(d.id_number) IN
    IF Truthy(v) /\ \E s \in students : s.id_number = v THEN NoneText ELSE v
SignupCleanedNemis(d) ==
    LET v == Strip(d.nemis_number) IN
    IF Truthy(v) /\ \E s \in students : s.nemis_number = v THEN NoneText ELSE v

SignupVerification(d) ==
    LET site == get_active
        county_name == NameOfCounty(site.county)
        constituency_name == NameOfConstituency(site.constituency)
    IN  IF d.id_type = "id"
        THEN Truthy(SignupCleanedId(d))
             /\ verify_id(SignupCleanedId(d), county_name, constituency_name)[1]
        ELSE IF d.id_type = "nemis"
        THEN Truthy(SignupCleanedNemis(d))
             /\ verify_nemis(SignupCleanedNemis(d), county_name, constituency_name,
                             Strip(d.guardian_id_number))[1]
        ELSE FALSE

SignupFormIsValid(d) ==
    /\ d.id_type \in {"id", "nemis"}
    /\ SignupCleanedId(d) # NoneText
    /\ SignupCleanedNemis(d) # NoneText
    /\ Truthy(d.admission_number)
    /\ ~\E s \in students : s.admission_number = d.admission_number
    /\ Truthy(d.email)
    /\ ~\E s \in students : s.email = d.email
    /\ d.password1 = d.password2
    /\ d.agree_to_terms
    /\ SignupVerification(d)

\* the while loop of save(): base, base_1, base_2, ... until no User has it
RECURSIVE UniqueUsername(_, _)
UniqueUsername(base, counter) ==
    LET username == IF counter = 0 THEN base
                    ELSE base \o <<"_", ToString(counter)>> IN
    IF \E u \in users : u.username = username
    THEN UniqueUsername(base, counter + 1) ELSE username

SignupUsername(d) ==
    LET chosen == IF d.id_type = "id" THEN Strip(d.id_number)
                  ELSE Strip(d.nemis_number)
        base == IF Truthy(chosen) THEN chosen ELSE d.admission_number
    IN  UniqueUsername(RemoveSpaces(base), 0)

\* VerifiedStudentSignupForm.save: the User row and the Student row it creates
SignupUser(d) ==
    [id |-> seq.user + 1, username |-> SignupUsername(d), email |-> d.email,
     password |-> d.password1, is_active |-> TRUE]
\* save() storing both submitted identifiers, whatever id_type says
SignupStudentBothIdentities(d) ==
    [id |-> seq.student + 1, user |-> seq.user + 1,
     id_number |-> SignupCleanedId(d), nemis_number |-> SignupCleanedNemis(d),
     admission_number |-> d.admission_number, email |-> d.email, phone |-> <<>>,
     county |-> None, constituency |-> None]
SignupStudent(d) ==
    [id |-> seq.student + 1, user |-> seq.user + 1,
     id_number |-> IF d.id_type = "id" THEN SignupCleanedId(d) ELSE NoneText,
     nemis_number |-> IF d.id_type = "nemis" THEN SignupCleanedNemis(d) ELSE NoneText,
     admission_number |-> d.admission_number, email |-> d.email, phone |-> <<>>,
     county |-> None, constituency |-> None]

\* signup_view
signup_view(actor, d) ==
    /\ (HasActiveSite /\ d.method = "POST" /\ SignupFormIsValid(d))
          => seq.student < MaxStudentUsers
    /\ UNCHANGED <<locations, siteProfiles, today, family, applications,
                   officerProfiles, activityLog, supportRequests, inflight>>
    /\ IF ~HasActiveSite
       THEN /\ response' = Response("signup", actor, 0, "redirect:student_login", {})
            /\ UNCHANGED <<users, students, seq>>
       ELSE IF d.method = "POST" /\ SignupFormIsValid(d)
       THEN IF \E u \in users : u.email = d.email
            THEN \* create_user fails on the unique e-mail constraint of auth_user
                 /\ response' = Response("signup", actor, 0, "error500", {})
                 /\ UNCHANGED <<users, students, seq>>
            ELSE /\ users' = users \cup {SignupUser(d)}
                 /\ students' = students \cup {SignupStudent(d)}
                 /\ seq' = [seq EXCEPT !.user = @ + 1, !.student = @ + 1]
                 /\ response' = Response("signup", actor, 0, "redirect:student_login", {})
       ELSE /\ response' = Response("signup", actor, 0, "render:signup", {})
            /\ UNCHANGED <<users, students, seq>>

\* --------------------------------------------------------- student profile
\* Student.clean, run by Student.save: empty identity strings become NULL
StudentClean(row) ==
    [row EXCEPT !.id_number = IF @ = <<>> THEN NoneText ELSE @,
                !.nemis_number = IF @ = <<>> THEN NoneText ELSE @]

\* StudentForm / StudentProfileForm on an instance: the identity fields are
\* disabled and keep the instance's values, phone goes through clean_phone,
\* e-mail must be unused by any other Student (fields that only have to be
\* present are taken as present)
StudentFormIsValid(tbl, inst, d) ==
    /\ clean_phone_ok(d.phone)
    /\ Truthy(d.email)
    /\ ~\E s \in tbl : s.id # inst.id /\ s.email = d.email
\* form.save(): the whole in-memory instance is written back
StudentFormSave(tbl, inst, d) ==
    {r \in tbl : r.id # inst.id}
    \cup {StudentClean([inst EXCEPT !.phone = clean_phone(d.phone), !.email = d.email])}

\* student_profile_edit
student_profile_edit(actor, d) ==
    /\ UNCHANGED <<locations, siteProfiles, today, family, applications,
                   officerProfiles, activityLog, supportRequests, seq, inflight>>
    /\ IF ~actor.is_authenticated
       THEN /\ response' = Response("student_profile_edit", actor, 0, "redirect:login", {})
            /\ UNCHANGED <<users, students>>
       ELSE IF ~HasStudentProfile(actor)
       THEN /\ response' = Response("student_profile_edit", actor, 0,
                                    "redirect:student_profile_view", {})
            /\ UNCHANGED <<users, students>>
       ELSE IF d.method = "POST" /\ StudentFormIsValid(students, student_profile(actor), d)
       THEN /\ students' = StudentFormSave(students, student_profile(actor), d)
            /\ IF \E u \in users : u.id # actor.id /\ u.email = d.email
               THEN \* user_form.save() fails on the unique e-mail constraint
                    /\ UNCHANGED users
                    /\ response' = Response("student_profile_edit", actor, 0, "error500", {})
               ELSE /\ users' = {IF u.id = actor.id THEN [u EXCEPT !.email = d.email] ELSE u
                                 : u \in users}
                    /\ response' = Response("student_profile_edit", actor, 0,
                                            "redirect:student_profile", {})
       ELSE /\ response' = Response("student_profile_edit", actor, 0, "render:form", {})
            /\ UNCHANGED <<users, students>>

\* UpgradeToIDForm.clean_id_number: verify_id is called without a scope
UpgradeFormIsValid(st, d) ==
    /\ Truthy(Strip(d.id_number))
    /\ verify_id(Strip(d.id_number), NoneText, NoneText)[1]
    /\ ~\E s \in students : s.id # st.id /\ s.id_number = Strip(d.id_number)

\* upgrade_to_id_view: the student is fetched as request.user.student
upgrade_to_id_view(actor, d) ==
    /\ UNCHANGED <<locations, siteProfiles, today, family, applications,
                   officerProfiles, activityLog, supportRequests, seq, inflight>>
    /\ IF ~actor.is_authenticated
       THEN /\ response' = Response("upgrade_to_id", actor, 0, "redirect:login", {})
            /\ UNCHANGED <<users, students>>
       ELSE IF ~HasStudentAttr(actor)
       THEN /\ response' = Response("upgrade_to_id", actor, 0, "redirect:student_dashboard", {})
            /\ UNCHANGED <<users, students>>
       ELSE IF d.method = "POST" /\ UpgradeFormIsValid(student_profile(actor), d)
       THEN LET st == student_profile(actor)
                new_id == Strip(d.id_number)
            IN  /\ students' = (students \ {st})
                       \cup {StudentClean([st EXCEPT !.id_number = new_id,
                                                     !.nemis_number = NoneText])}
                /\ users' = {IF u.id = st.user THEN [u EXCEPT !.username = new_id] ELSE u
                             : u \in users}
                /\ response' = Response("upgrade_to_id", actor, 0,
                                        "redirect:student_dashboard", {})
       ELSE /\ response' = Response("upgrade_to_id", actor, 0, "render:form", {})
            /\ UNCHANGED <<users, students>>

\* ----------------------------------------------------------- apply_bursary
\* Decimal(text) of a form field: digits, optionally with a fraction
IsDecimal(t) ==
    \/ IsDigit(t)
    \/ \E i \in 1..Len(t) : /\ t[i] = "."
                            /\ IsDigit(SubSeq(t, 1, i - 1))
                            /\ IsDigit(SubSeq(t, i + 1, Len(t)))

\* validate_file_extension of an uploaded document
ALLOWED_EXTENSIONS == {".pdf", ".jpg", ".jpeg", ".png"}

\* lines 90-98: the deadline check
ApplyDeadlineClosed == HasActiveSite /\ ~is_application_open(get_active)

\* lines 109-112: the in-memory student after the constituency assignment, and
\* the table after student.save(update_fields=["constituency"])
ApplyLoaded(st) ==
    IF st.constituency = None /\ HasActiveSite /\ get_active.constituency # None
    THEN [st EXCEPT !.constituency = get_active.constituency] ELSE st
StudentsAfterLoad(st) == (students \ {st}) \cup {ApplyLoaded(st)}

\* lines 114-116 left out: no request is turned away as a duplicate
AlreadyAppliedUnchecked(st) == FALSE
\* lines 114-116: the duplicate check
AlreadyApplied(st) == ApplicationsOf(st.id) # {}

\* lines 139-145: the five forms validate together.  The constituency field of
\* BursaryApplicationForm is disabled and takes the student's constituency,
\* which clean_constituency requires; new siblings and documents come as
\* extra forms of the formsets.
ApplyFormsValid(tbl, inst, d) ==
    /\ StudentFormIsValid(tbl, inst, d)
    /\ Truthy(d.guardian_name)
    /\ inst.constituency # None
    /\ IsDecimal(d.amount_requested)
    /\ \A i \in 1..Len(d.siblings) : Truthy(d.siblings[i])
    /\ \A i \in 1..Len(d.documents) : d.documents[i] \in ALLOWED_EXTENSIONS

GuardiansOfStudent(student_id) == {g \in guardians : g.student = student_id}

\* a save that replaces the student's guardian rows by a new one
GuardianReplace(inst, d) ==
    {g \in guardians : g.student # inst.id}
        \cup {[id |-> seq.guardian + 1, student |-> inst.id, name |-> d.guardian_name]}
\* lines 149-153: Guardian.objects.update_or_create(student=student, defaults=...)
GuardianUpdateOrCreate(inst, d) ==
    IF GuardiansOfStudent(inst.id) = {}
    THEN guardians \cup {[id |-> seq.guardian + 1, student |-> inst.id,
                          name |-> d.guardian_name]}
    ELSE {IF g.student = inst.id THEN [g EXCEPT !.name = d.guardian_name] ELSE g
          : g \in guardians}

\* the application row that application.save() would insert if line 157 took
\* the constituency of the active site instead of the student's
NewApplicationOfSite(inst, d) ==
    [id |-> seq.application + 1, student |-> inst.id,
     constituency |-> IF HasActiveSite THEN get_active.constituency ELSE None,
     bursary_type |-> "constituency",
     status |-> "pending", feedback |-> NoneText, amount_awarded |-> NoneText,
     amount_requested |-> d.amount_requested]

\* lines 155-158: the application row that is inserted
NewApplication(inst, d) ==
    [id |-> seq.application + 1, student |-> inst.id,
     constituency |-> inst.constituency, bursary_type |-> "constituency",
     status |-> "pending", feedback |-> NoneText, amount_awarded |-> NoneText,
     amount_requested |-> d.amount_requested]

\* lines 160-172: the sibling and document rows that are inserted
NewSiblings(inst, d) ==
    {[id |-> seq.sibling + i, student |-> inst.id, name |-> d.siblings[i]]
     : i \in 1..Len(d.siblings)}
NewDocuments(d) ==
    {[id |-> seq.document + i, application |-> seq.application + 1,
      document_type |-> d.documents[i]] : i \in 1..Len(d.documents)}

\* lines 146-182: the writes of a POST whose forms were valid, made with the
\* student instance loaded before the checks, then the notifications
ApplyWrite(actor, inst, d, tbl) ==
    /\ seq.application < MaxApplications
    /\ UNCHANGED <<locations, siteProfiles, today, users, officerProfiles,
                   activityLog, supportRequests>>
    /\ IF \E s \in tbl : s.id # inst.id /\ s.email = d.email
       THEN \* student_form.save() fails on the unique e-mail of Student
            /\ students' = tbl
            /\ UNCHANGED <<family, applications, seq>>
            /\ response' = Response("apply_bursary", actor, 0, "error500", {})
       ELSE /\ students' = StudentFormSave(tbl, inst, d)
            /\ IF Cardinality(GuardiansOfStudent(inst.id)) > 1
               THEN \* update_or_create raises MultipleObjectsReturned
                    /\ UNCHANGED <<family, applications, seq>>
                    /\ response' = Response("apply_bursary", actor, 0, "error500", {})
               ELSE /\ guardians' = GuardianUpdateOrCreate(inst, d)
                    /\ applications' = applications \cup {NewApplication(inst, d)}
                    /\ siblings' = siblings \cup NewSiblings(inst, d)
                    /\ documents' = documents \cup NewDocuments(d)
                    /\ seq' = [seq EXCEPT
                                 !.guardian = IF GuardiansOfStudent(inst.id) = {}
                                              THEN @ + 1 ELSE @,
                                 !.application = @ + 1,
                                 !.sibling = @ + Len(d.siblings),
                                 !.document = @ + Len(d.documents)]
                    \* send_mail(fail_silently=False) raises when the mail cannot
                    \* be sent; send_sms catches every exception of the gateway
                    /\ response' = Response("apply_bursary", actor, seq.application + 1,
                           IF d.mail_ok THEN "redirect:student_dashboard" ELSE "error500",
                           {})

\* lines 88-116 and the GET / invalid-form render: every outcome of
\* apply_bursary that writes no application
ApplyNoWrite(actor, d) ==
    /\ UNCHANGED <<locations, siteProfiles, today, users, family, applications,
                   officerProfiles, activityLog, supportRequests, seq>>
    /\ IF ~actor.is_authenticated
       THEN /\ response' = Response("apply_bursary", actor, 0, "redirect:login", {})
            /\ UNCHANGED students
       ELSE IF ApplyDeadlineClosed
       THEN /\ response' = Response("apply_bursary", actor, 0, "render:deadline_closed", {})
            /\ UNCHANGED students
       ELSE IF ~HasStudentProfile(actor)
       THEN /\ response' = Response("apply_bursary", actor, 0,
                                    "redirect:student_profile_edit", {})
            /\ UNCHANGED students
       ELSE LET st == student_profile(actor) IN
            /\ students' = StudentsAfterLoad(st)
            /\ response' = Response("apply_bursary", actor, 0,
                   IF AlreadyApplied(st) THEN "render:already_applied" ELSE "render:apply",
                   {})

\* the request reaches the writes of lines 146-182
ApplyReachesWrite(actor, d) ==
    /\ actor.is_authenticated
    /\ ~ApplyDeadlineClosed
    /\ HasStudentProfile(actor)
    /\ ~AlreadyApplied(student_profile(actor))
    /\ d.method = "POST"
    /\ ApplyFormsValid(StudentsAfterLoad(student_profile(actor)),
                       ApplyLoaded(student_profile(actor)), d)

\* apply_bursary, run from its first line to its response with no other
\* request in between
apply_bursary(actor, d) ==
    /\ UNCHANGED inflight
    /\ IF ApplyReachesWrite(actor, d)
       THEN ApplyWrite(actor, ApplyLoaded(student_profile(actor)), d,
                       StudentsAfterLoad(student_profile(actor)))
       ELSE ApplyNoWrite(actor, d)

\* ------------------------------------------------ update_application_status
ApplicationsWithId(pk) == {a \in applications : a.id = pk}

\* the authorization with the bursary_type comparison left out
OfficerMayUpdateSameConstituency(officer, application) ==
    application.constituency = officer.constituency
\* lines 966-968: the officer may act on the application
OfficerMayUpdate(officer, application) ==
    ~(application.constituency # officer.constituency
      \/ application.bursary_type # officer.bursary_type)

\* lines 972-985: the row that application.save() writes
UpdatedApplication(application, d) ==
    [application EXCEPT
        !.status = d.status,
        !.feedback = d.feedback,
        !.amount_awarded = IF Truthy(d.amount_awarded) THEN d.amount_awarded ELSE @]

\* the checks with lines 956-958 left out: any status of the model's choices
UpdateIsAcceptedAnyStatus(actor, application_id, d) ==
    /\ d.method = "POST"
    /\ actor.is_authenticated
    /\ ApplicationsWithId(application_id) # {}
    /\ d.status \in ApplicationStatus
    /\ HasOfficerProfile(actor)
    /\ OfficerMayUpdate(officer_profile(actor), First(ApplicationsWithId(application_id)))
    /\ (Truthy(d.amount_awarded) => IsDecimal(d.amount_awarded))
\* the checks with the Decimal parse of lines 976-981 left out
UpdateIsAcceptedAnyAmount(actor, application_id, d) ==
    /\ d.method = "POST"
    /\ actor.is_authenticated
    /\ ApplicationsWithId(application_id) # {}
    /\ d.status \in {"approved", "rejected"}
    /\ HasOfficerProfile(actor)
    /\ OfficerMayUpdate(officer_profile(actor), First(ApplicationsWithId(application_id)))
\* the request passes every check of lines 950-983
UpdateIsAccepted(actor, application_id, d) ==
    /\ d.method = "POST"
    /\ actor.is_authenticated
    /\ ApplicationsWithId(application_id) # {}
    /\ d.status \in {"approved", "rejected"}
    /\ HasOfficerProfile(actor)
    /\ OfficerMayUpdate(officer_profile(actor), First(ApplicationsWithId(application_id)))
    /\ (Truthy(d.amount_awarded) => IsDecimal(d.amount_awarded))

\* why a request that is not accepted ends as it does
UpdateRejection(actor, application_id, d) ==
    IF d.method # "POST" THEN "error405"
    ELSE IF ~actor.is_authenticated THEN "redirect:login"
    ELSE IF ApplicationsWithId(application_id) = {} THEN "error404"
    ELSE IF d.status \notin {"approved", "rejected"} THEN "redirect:officer_dashboard"
    ELSE IF ~HasOfficerProfile(actor) THEN "redirect:officer_dashboard"
    ELSE IF ~OfficerMayUpdate(officer_profile(actor),
                              First(ApplicationsWithId(application_id)))
    THEN "redirect:officer_dashboard"
    ELSE "redirect:application_detail"

update_application_status(actor, application_id, d) ==
    /\ UNCHANGED <<locations, siteProfiles, today, users, students, family,
                   officerProfiles, supportRequests, seq, inflight>>
    /\ IF UpdateIsAccepted(actor, application_id, d)
       THEN LET application == First(ApplicationsWithId(application_id)) IN
            /\ Len(activityLog) < MaxLog
            /\ applications' = (applications \ {application})
                                   \cup {UpdatedApplication(application, d)}
            /\ activityLog' = LogAppend(activityLog, officer_profile(actor), "change_status")
            /\ response' = Response("update_application_status", actor, application_id,
                                    "redirect:officer_dashboard", {})
       ELSE /\ UNCHANGED <<applications, activityLog>>
            /\ response' = Response("update_application_status", actor, application_id,
                                    UpdateRejection(actor, application_id, d), {})

\* submit_bursary_application: the student is fetched as request.user.student
submit_bursary_application(actor) ==
    /\ UNCHANGED <<locations, siteProfiles, today, users, students, family,
                   officerProfiles, activityLog, supportRequests, seq, inflight>>
    /\ IF ~actor.is_authenticated
       THEN /\ response' = Response("submit_bursary_application", actor, 0,
                                    "redirect:login", {})
            /\ UNCHANGED applications
       ELSE IF ~HasStudentAttr(actor)
       THEN /\ response' = Response("submit_bursary_application", actor, 0,
                                    "redirect:student_login", {})
            /\ UNCHANGED applications
       ELSE LET mine == ApplicationsOf(student_profile(actor).id) IN
            IF Cardinality(mine) # 1
            THEN \* get_or_create: the insert lacks a constituency, or several rows match
                 /\ response' = Response("submit_bursary_application", actor, 0,
                                         "error500", {})
                 /\ UNCHANGED applications
            ELSE /\ applications' =
                       {IF a \in mine /\ a.status # "approved"
                        THEN [a EXCEPT !.status = "pending"] ELSE a : a \in applications}
                 /\ response' = Response("submit_bursary_application", actor, 0,
                                         "redirect:student_dashboard", {})

\* ---------------------------------------------------------- support requests
\* SupportRequestForm: subject and message are required
SupportFormIsValid(d) == Truthy(d.subject) /\ Truthy(d.message)

\* a SupportRequest row as the model's defaults make it
NewSupportRequest(student_id) ==
    [id |-> seq.support + 1, student |-> student_id, resolved |-> FALSE,
     officer_action |-> NoneText, viewed_by_student |-> FALSE]

\* contact_support_view: the student is fetched as request.user.student
contact_support_view(actor, d) ==
    /\ UNCHANGED <<locations, siteProfiles, today, users, students, family, applications,
                   officerProfiles, activityLog, inflight>>
    /\ IF ~actor.is_authenticated
       THEN /\ response' = Response("contact_support", actor, 0, "redirect:login", {})
            /\ UNCHANGED <<supportRequests, seq>>
       ELSE IF d.method = "POST" /\ SupportFormIsValid(d)
       THEN IF ~HasStudentAttr(actor)
            THEN /\ response' = Response("contact_support", actor, 0,
                                         "redirect:student_dashboard", {})
                 /\ UNCHANGED <<supportRequests, seq>>
            ELSE /\ seq.support < MaxSupportRequests
                 /\ supportRequests' = supportRequests
                        \cup {NewSupportRequest(student_profile(actor).id)}
                 /\ seq' = [seq EXCEPT !.support = @ + 1]
                 /\ response' = Response("contact_support", actor, 0,
                                         "redirect:student_dashboard", {})
       ELSE /\ response' = Response("contact_support", actor, 0, "render:form", {})
            /\ UNCHANGED <<supportRequests, seq>>

\* A SupportRequest row stored for a student through the model itself (a
\* fixture, the shell, a row kept from an earlier release): the table is not
\* in the admin and contact_support_view stores none.
SupportRequestInsert(student_id) ==
    /\ seq.support < MaxSupportRequests
    /\ \E s \in students : s.id = student_id
    /\ supportRequests' = supportRequests \cup {NewSupportRequest(student_id)}
    /\ seq' = [seq EXCEPT !.support = @ + 1]
    /\ response' = Response("SupportRequest.objects.create", Anonymous, student_id,
                            "none", {})
    /\ UNCHANGED <<locations, siteProfiles, today, users, students, family, applications,
                   officerProfiles, activityLog, inflight>>

SupportRequestsWithId(pk) == {r \in supportRequests : r.id = pk}

\* line 1490: BursaryApplication.objects.filter(student=student).last(), the
\* oldest application of the ticket's student (none: the empty set)
TicketApplication(sr) ==
    IF ApplicationsOf(sr.student) = {} THEN {} ELSE {First(ApplicationsOf(sr.student))}

\* lines 1498-1506: the ticket row that support_request.save() writes
ResolvedTicket(sr, action) ==
    IF sr.resolved THEN [sr EXCEPT !.officer_action = action]
    ELSE [sr EXCEPT !.resolved = TRUE, !.officer_action = action]

\* a deletion that does not look at whether the ticket was already resolved
TicketDeletesAlways(sr, d) ==
    IF d.allow_reapply THEN TicketApplication(sr) ELSE {}
\* lines 1508-1509: application.delete(), which cascades to its documents
TicketDeletes(sr, d) ==
    IF ~sr.resolved /\ d.allow_reapply THEN TicketApplication(sr) ELSE {}

\* officer_support_request_detail: only login is required.  The ticket is
\* saved and the application deleted before request.user.officer_profile is
\* read for the log entry, which raises for a user without a profile.
officer_support_request_detail(actor, pk, d) ==
    /\ UNCHANGED <<locations, siteProfiles, today, users, students, guardians, siblings,
                   officerProfiles, seq, inflight>>
    /\ IF ~actor.is_authenticated
       THEN /\ response' = Response("officer_support_request_detail", actor, pk,
                                    "redirect:login", {})
            /\ UNCHANGED <<applications, documents, supportRequests, activityLog>>
       ELSE IF SupportRequestsWithId(pk) = {}
       THEN /\ response' = Response("officer_support_request_detail", actor, pk,
                                    "error404", {})
            /\ UNCHANGED <<applications, documents, supportRequests, activityLog>>
       ELSE LET sr == First(SupportRequestsWithId(pk))
                action == Strip(d.action)
                deleted == TicketDeletes(sr, d)
            IN
            IF d.method # "POST"
            THEN /\ response' = Response("officer_support_request_detail", actor, pk,
                        "render:detail", {a.id : a \in TicketApplication(sr)})
                 /\ UNCHANGED <<applications, documents, supportRequests, activityLog>>
            ELSE IF ~Truthy(action)
            THEN /\ response' = Response("officer_support_request_detail", actor, pk,
                        "redirect:officer_support_request_detail", {})
                 /\ UNCHANGED <<applications, documents, supportRequests, activityLog>>
            ELSE /\ HasOfficerProfile(actor) => Len(activityLog) < MaxLog
                 /\ supportRequests' = (supportRequests \ {sr}) \cup {ResolvedTicket(sr, action)}
                 /\ applications' = applications \ deleted
                 /\ documents' = {doc \in documents :
                                    \A a \in deleted : doc.application # a.id}
                 /\ IF HasOfficerProfile(actor)
                    THEN /\ activityLog' = LogAppend(activityLog, officer_profile(actor),
                                                     "resolve_support_request")
                         /\ response' = Response("officer_support_request_detail", actor, pk,
                                                 "redirect:officer_support_requests", {})
                    ELSE /\ UNCHANGED activityLog
                         /\ response' = Response("officer_support_request_detail", actor, pk,
                                                 "error500", {})

\* resolve_support_request: login and an officer profile are required
resolve_support_request(actor, pk) ==
    /\ UNCHANGED <<locations, siteProfiles, today, users, students, family, applications,
                   officerProfiles, seq, inflight>>
    /\ IF ~actor.is_authenticated \/ ~HasOfficerProfile(actor)
       THEN /\ response' = Response("resolve_support_request", actor, pk,
                                    "redirect:login", {})
            /\ UNCHANGED <<supportRequests, activityLog>>
       ELSE IF SupportRequestsWithId(pk) = {}
       THEN /\ response' = Response("resolve_support_request", actor, pk, "error404", {})
            /\ UNCHANGED <<supportRequests, activityLog>>
       ELSE LET sr == First(SupportRequestsWithId(pk)) IN
            IF ~sr.resolved
            THEN /\ Len(activityLog) < MaxLog
                 /\ supportRequests' = (supportRequests \ {sr})
                                           \cup {[sr EXCEPT !.resolved = TRUE]}
                 /\ activityLog' = LogAppend(activityLog, officer_profile(actor),
                                             "resolve_support")
                 /\ response' = Response("resolve_support_request", actor, pk,
                                         "redirect:officer_support_requests", {})
            ELSE /\ UNCHANGED <<supportRequests, activityLog>>
                 /\ response' = Response("resolve_support_request", actor, pk,
                                         "redirect:officer_support_requests", {})

\* ------------------------------------------------------- site profiles
\* the superuser of the Django admin site
Staff == [is_authenticated |-> TRUE, id |-> 0]

\* SiteProfile.clean: raises unless exactly one of county, constituency is set
SiteProfileClean(row) ==
    /\ ~(row.county # None /\ row.constituency # None)
    /\ ~(row.county = None /\ row.constituency = None)

\* SiteProfile.save: clean(), then the row is stored
SiteProfileSave(row) ==
    IF SiteProfileClean(row)
    THEN {p \in siteProfiles : p.id # row.id} \cup {row}
    ELSE siteProfiles

\* SiteProfileForm.clean: the scope the form keeps for its profile_type; the
\* county and constituency fields only take rows that exist
SiteProfileFormIsValid(d) ==
    /\ d.county \in counties \cup {None}
    /\ d.constituency \in constituencies \cup {None}
    /\ \/ d.profile_type = "county" /\ d.county # None
       \/ d.profile_type = "constituency" /\ d.constituency # None
SiteProfileFormCleaned(d) ==
    IF d.profile_type = "county"
    THEN [d EXCEPT !.constituency = None] ELSE [d EXCEPT !.county = None]

\* the add and change pages of SiteProfileAdmin; target 0 is the add page
admin_site_profile_save(target, d) ==
    LET cleaned == SiteProfileFormCleaned(d)
        row == [id |-> IF target = 0 THEN seq.site + 1 ELSE target,
                county |-> cleaned.county, constituency |-> cleaned.constituency,
                is_active |-> d.is_active,
                application_deadline |-> d.application_deadline,
                branding_name |-> d.branding_name, branding_logo |-> d.branding_logo]
    IN  /\ target = 0 => seq.site < MaxSiteProfiles
        /\ target # 0 => \E p \in siteProfiles : p.id = target
        /\ UNCHANGED <<locations, today, users, students, family, applications,
                       officerProfiles, activityLog, supportRequests, inflight>>
        /\ IF SiteProfileFormIsValid(d) /\ SiteProfileClean(row)
           THEN /\ siteProfiles' = SiteProfileSave(row)
                /\ seq' = IF target = 0 THEN [seq EXCEPT !.site = @ + 1] ELSE seq
                /\ response' = Response("admin:siteprofile", Staff, row.id, "redirect:changelist", {})
           ELSE /\ UNCHANGED <<siteProfiles, seq>>
                /\ response' = Response("admin:siteprofile", Staff, target, "render:form", {})

\* SiteProfile(...).save() on a new row built outside the admin form
site_profile_create(d) ==
    LET row == [id |-> seq.site + 1, county |-> d.county, constituency |-> d.constituency,
                is_active |-> d.is_active,
                application_deadline |-> d.application_deadline,
                branding_name |-> d.branding_name, branding_logo |-> d.branding_logo]
    IN  /\ seq.site < MaxSiteProfiles
        /\ d.county \in counties \cup {None}
        /\ d.constituency \in constituencies \cup {None}
        /\ UNCHANGED <<locations, today, users, students, family, applications,
                       officerProfiles, activityLog, supportRequests, inflight>>
        /\ siteProfiles' = SiteProfileSave(row)
        /\ IF SiteProfileClean(row)
           THEN /\ seq' = [seq EXCEPT !.site = @ + 1]
                /\ response' = Response("SiteProfile.save", Staff, row.id, "saved", {})
           ELSE /\ UNCHANGED seq
                /\ response' = Response("SiteProfile.save", Staff, 0, "ValidationError", {})

\* Deleting constituencies: PROTECT on BursaryApplication.constituency stops
\* the deletion; otherwise OfficerProfile rows (and their log rows) go with
\* them and Student.constituency and SiteProfile.constituency are SET_NULL,
\* which is an UPDATE that runs neither save() nor clean().
ConstituenciesOfCounty(k) == {c \in constituencies : ConstituencyCounty(c) = k}
Protected(cs) == \E a \in applications : a.constituency \in cs
OfficersAfterDelete(cs) == {o \in officerProfiles : o.constituency \notin cs}
LogAfterDelete(cs) ==
    SelectSeq(activityLog, LAMBDA e : \E o \in OfficersAfterDelete(cs) : o.id = e.officer)
StudentsAfterDelete(ks, cs) ==
    {[st EXCEPT !.county = IF @ \in ks THEN None ELSE @,
                !.constituency = IF @ \in cs THEN None ELSE @] : st \in students}
SitesAfterDelete(ks, cs) ==
    {[p EXCEPT !.county = IF @ \in ks THEN None ELSE @,
               !.constituency = IF @ \in cs THEN None ELSE @] : p \in siteProfiles}

DeleteLocations(view, ks, cs) ==
    /\ UNCHANGED <<today, users, family, applications, supportRequests, seq, inflight>>
    /\ IF Protected(cs)
       THEN /\ UNCHANGED <<locations, siteProfiles, students, officerProfiles, activityLog>>
            /\ response' = Response(view, Staff, 0, "render:protected", {})
       ELSE /\ counties' = counties \ ks
            /\ constituencies' = constituencies \ cs
            /\ officerProfiles' = OfficersAfterDelete(cs)
            /\ activityLog' = LogAfterDelete(cs)
            /\ students' = StudentsAfterDelete(ks, cs)
            /\ siteProfiles' = SitesAfterDelete(ks, cs)
            /\ response' = Response(view, Staff, 0, "redirect:changelist", {})

\* the delete pages of the Constituency and County admins
admin_delete_constituency(c) ==
    /\ c \in constituencies
    /\ DeleteLocations("admin:constituency_delete", {}, {c})
admin_delete_county(k) ==
    /\ k \in counties
    /\ DeleteLocations("admin:county_delete", {k}, ConstituenciesOfCounty(k))

\* ------------------------------------------------------------ read views
\* A view that only reads: the tables stay as they are and the response
\* carries the primary keys of the applications whose data it returns.
Reads(view, actor, target, status, apps) ==
    /\ response' = Response(view, actor, target, status, apps)
    /\ UNCHANGED <<locations, siteProfiles, today, users, students, family, applications,
                   officerProfiles, activityLog, supportRequests, seq, inflight>>

Ids(rows) == {a.id : a \in rows}
\* queryset.filter(status=status) when the status parameter is given
FilterStatus(rows, status) ==
    IF status = "" THEN rows ELSE {a \in rows : a.status = status}
\* BursaryApplication.objects.filter(bursary_type=officer.bursary_type,
\* constituency=officer.constituency); constituency=None selects the rows
\* whose constituency IS NULL
OfficerQueryset(officer) ==
    {a \in applications : /\ a.bursary_type = officer.bursary_type
                          /\ a.constituency = officer.constituency}
\* BursaryApplication.objects.filter(student=student).first(): the newest
NewestApplication(st) ==
    IF ApplicationsOf(st.id) = {} THEN {} ELSE {Last(ApplicationsOf(st.id))}

officer_dashboard(actor, status) ==
    IF ~actor.is_authenticated
    THEN Reads("officer_dashboard", actor, 0, "redirect:login", {})
    ELSE IF ~HasOfficerProfile(actor)
    THEN Reads("officer_dashboard", actor, 0, "redirect:officer_login", {})
    ELSE Reads("officer_dashboard", actor, 0, "render:dashboard",
               Ids(FilterStatus(OfficerQueryset(officer_profile(actor)), status)))

officer_reports(actor) ==
    IF ~actor.is_authenticated
    THEN Reads("officer_reports", actor, 0, "redirect:login", {})
    ELSE IF ~HasOfficerProfile(actor)
    THEN Reads("officer_reports", actor, 0, "redirect:officer_login", {})
    ELSE Reads("officer_reports", actor, 0, "render:reports",
               Ids(OfficerQueryset(officer_profile(actor))))

\* officer_applications: login is the only condition, the queryset is every
\* application
officer_applications(actor, status) ==
    IF ~actor.is_authenticated
    THEN Reads("officer_applications", actor, 0, "redirect:login", {})
    ELSE Reads("officer_applications", actor, 0, "render:applications",
               Ids(FilterStatus(applications, status)))

\* export_applications_csv: as officer_applications, as a CSV file
export_applications_csv(actor, status) ==
    IF ~actor.is_authenticated
    THEN Reads("export_applications_csv", actor, 0, "redirect:login", {})
    ELSE Reads("export_applications_csv", actor, 0, "file:csv",
               Ids(FilterStatus(applications, status)))

\* export_applications_pdf: select_related("constituency") with an only()
\* that defers the constituency column raises FieldError when the rows are read
export_applications_pdf(actor, status) ==
    IF ~actor.is_authenticated
    THEN Reads("export_applications_pdf", actor, 0, "redirect:login", {})
    ELSE Reads("export_applications_pdf", actor, 0, "error500", {})

application_detail(actor, application_id) ==
    IF ~actor.is_authenticated
    THEN Reads("application_detail", actor, application_id, "redirect:login", {})
    ELSE IF ApplicationsWithId(application_id) = {}
    THEN Reads("application_detail", actor, application_id, "error404", {})
    ELSE IF ~HasOfficerProfile(actor)
    THEN Reads("application_detail", actor, application_id, "redirect:officer_login", {})
    ELSE IF ~OfficerMayUpdate(officer_profile(actor),
                              First(ApplicationsWithId(application_id)))
    THEN Reads("application_detail", actor, application_id,
               "redirect:officer_dashboard", {})
    ELSE Reads("application_detail", actor, application_id, "render:detail",
               {application_id})

\* download_single_application: no decorator, no check of the user
download_single_application(actor, pk) ==
    IF ApplicationsWithId(pk) = {}
    THEN Reads("download_single_application", actor, pk, "error404", {})
    ELSE Reads("download_single_application", actor, pk, "file:csv", {pk})

\* download_applications_by_status: select_related("student__guardian") names
\* no field of Student, so reading the rows raises FieldError
download_applications_by_status(actor, status) ==
    Reads("download_applications_by_status", actor, 0, "error500", {})

student_dashboard(actor) ==
    IF ~actor.is_authenticated
    THEN Reads("student_dashboard", actor, 0, "redirect:login", {})
    ELSE IF ~HasStudentProfile(actor)
    THEN Reads("student_dashboard", actor, 0, "redirect:student_signup", {})
    ELSE Reads("student_dashboard", actor, 0, "render:dashboard",
               Ids(NewestApplication(student_profile(actor))))

application_preview(actor) ==
    IF ~actor.is_authenticated
    THEN Reads("application_preview", actor, 0, "redirect:login", {})
    ELSE IF ~HasStudentProfile(actor)
    THEN Reads("application_preview", actor, 0, "redirect:student_profile_edit", {})
    ELSE IF NewestApplication(student_profile(actor)) = {}
    THEN Reads("application_preview", actor, 0, "redirect:apply_bursary", {})
    ELSE IF \E a \in NewestApplication(student_profile(actor)) : a.status = "rejected"
    THEN Reads("application_preview", actor, 0, "redirect:apply_bursary", {})
    ELSE Reads("application_preview", actor, 0, "render:preview",
               Ids(NewestApplication(student_profile(actor))))

\* application_pdf, the definition of lines 1045-1071 (it replaces the one of
\* lines 826-847 when the module is loaded)
application_pdf(actor) ==
    IF ~actor.is_authenticated
    THEN Reads("application_pdf", actor, 0, "redirect:login", {})
    ELSE IF ~HasStudentProfile(actor)
    THEN Reads("application_pdf", actor, 0, "error404", {})
    ELSE IF NewestApplication(student_profile(actor)) = {}
    THEN Reads("application_pdf", actor, 0, "redirect:student_dashboard", {})
    ELSE Reads("application_pdf", actor, 0, "file:pdf",
               Ids(NewestApplication(student_profile(actor))))

\* --------------------------------------------------------------- requests
\* The acting users and the form data the requests are made with.
StudentUsers == {UserOf(s.user) : s \in students}
ScopedOfficer == UserOf(1)

TextA1 == <<"A","1">>
TextA2 == <<"A","2">>
TextE1 == <<"e","1","@">>
TextE2 == <<"e","2","@">>
TextOk == <<"o","k">>
Text500 == <<"5","0","0">>
TextAbc == <<"a","b","c">>
NemisSA02 == <<"S","A","0","2">>

\* signup: an ID signup that also fills in a NEMIS number, a NEMIS signup, a
\* form without the chosen identifier, and the GET of the page
SignupBase ==
    [method |-> "POST", id_type |-> "id", id_number |-> Id200001,
     nemis_number |-> NemisSA02, guardian_id_number |-> <<>>,
     admission_number |-> TextA1, email |-> TextE1,
     password1 |-> "pw", password2 |-> "pw", agree_to_terms |-> TRUE]
SignupNemis ==
    [SignupBase EXCEPT !.id_type = "nemis", !.id_number = <<>>,
                       !.nemis_number = NemisSA01, !.admission_number = TextA2,
                       !.email = TextE2]
SignupData ==
    { SignupBase,
      SignupNemis,
      [SignupBase EXCEPT !.id_number = <<>>],
      [SignupBase EXCEPT !.method = "GET"] }

\* the e-mail field of a student's form as the page pre-fills it
Prefill == <<"=">>
Prefilled(actor, d) ==
    IF d.email = Prefill /\ HasStudentProfile(actor)
    THEN [d EXCEPT !.email = student_profile(actor).email] ELSE d

ProfileData ==
    { [method |-> "POST", phone |-> ValidPhone, email |-> Prefill],
      [method |-> "POST", phone |-> ShortPhone, email |-> Prefill],
      [method |-> "GET", phone |-> <<>>, email |-> <<>>] }

UpgradeData == { [method |-> "POST", id_number |-> Id123456],
                 [method |-> "GET", id_number |-> <<>>] }

ApplyBase ==
    [method |-> "POST", phone |-> ValidPhone, email |-> Prefill, guardian_name |-> <<"G">>,
     amount_requested |-> Text500, siblings |-> << <<"S">> >>, documents |-> <<".pdf">>,
     mail_ok |-> TRUE, sms_ok |-> TRUE]
ApplyData ==
    { ApplyBase,
      [ApplyBase EXCEPT !.mail_ok = FALSE],
      [ApplyBase EXCEPT !.sms_ok = FALSE],
      [ApplyBase EXCEPT !.documents = <<".exe">>],
      [ApplyBase EXCEPT !.method = "GET"] }

UpdateBase ==
    [method |-> "POST", status |-> "approved", feedback |-> <<>>, amount_awarded |-> Text500]
UpdateRejected ==
    [UpdateBase EXCEPT !.status = "rejected", !.feedback = TextOk,
                       !.amount_awarded = NoneText]
UpdateData ==
    { UpdateBase,
      UpdateRejected,
      [UpdateBase EXCEPT !.amount_awarded = TextAbc],
      [UpdateBase EXCEPT !.status = "verified"],
      [UpdateBase EXCEPT !.status = "pending"],
      [UpdateBase EXCEPT !.method = "GET"] }

SupportFormData == { [method |-> "POST", subject |-> TextOk, message |-> TextOk],
                     [method |-> "POST", subject |-> <<>>, message |-> TextOk],
                     [method |-> "GET", subject |-> <<>>, message |-> <<>>] }

TicketReapply == [method |-> "POST", action |-> TextOk, allow_reapply |-> TRUE]
TicketData ==
    { TicketReapply,
      [TicketReapply EXCEPT !.allow_reapply = FALSE],
      [TicketReapply EXCEPT !.action = <<" ">>],
      [TicketReapply EXCEPT !.method = "GET", !.action = <<>>, !.allow_reapply = FALSE] }

ApplicationIds == 1..MaxApplications
SupportRequestIds == 1..MaxSupportRequests
StudentIds == 1..MaxStudentUsers

\* ----------------------------------------------- the sequential workflow
\* Students sign up, edit their profile and apply; the officer of the site's
\* constituency decides applications and lets students apply again.  Every
\* request runs from its first line to its response before the next starts.
Signup == \E d \in SignupData : signup_view(Anonymous, d)
StudentProfileEdit ==
    \E actor \in {Anonymous} \cup StudentUsers, d \in ProfileData :
        student_profile_edit(actor, Prefilled(actor, d))
UpgradeToId == \E actor \in StudentUsers, d \in UpgradeData : upgrade_to_id_view(actor, d)
ApplyBursary ==
    \E actor \in {Anonymous} \cup StudentUsers, d \in ApplyData :
        apply_bursary(actor, Prefilled(actor, d))
SubmitBursaryApplication == \E actor \in StudentUsers : submit_bursary_application(actor)
ContactSupport ==
    \E actor \in StudentUsers, d \in SupportFormData : contact_support_view(actor, d)
StoreSupportRequest == \E sid \in StudentIds : SupportRequestInsert(sid)
DecideApplication ==
    \E pk \in ApplicationIds, d \in {UpdateBase, UpdateRejected} :
        update_application_status(ScopedOfficer, pk, d)
AllowReapply ==
    \E pk \in SupportRequestIds :
        officer_support_request_detail(ScopedOfficer, pk, TicketReapply)

Next ==
    \/ Signup
    \/ StudentProfileEdit
    \/ UpgradeToId
    \/ ApplyBursary
    \/ SubmitBursaryApplication
    \/ ContactSupport
    \/ StoreSupportRequest
    \/ DecideApplication
    \/ AllowReapply

Spec == Init /\ [][Next]_vars

\* ---------------------------------------------------------------- C1
\* the acting user of the last request, as a student who had an application
\* when the request started
ApplyByApplicant ==
    /\ response'.view = "apply_bursary"
    /\ HasStudentProfile(response'.user)
    /\ AlreadyApplied(student_profile(response'.user))
OneApplicationPerStudent ==
    \A s \in students : Cardinality(ApplicationsOf(s.id)) <= 1
ApplicantChangesNothing ==
    ApplyByApplicant => applications' = applications

\* C1: under sequentially executed requests every student has at most one
\* BursaryApplication, and an apply_bursary request by a student who already
\* has one creates no application and changes none.
C1_OneApplicationPerStudent ==
    []OneApplicationPerStudent /\ [][ApplicantChangesNothing]_vars

\* a student who got an application, lost it to a re-application ticket and
\* applied again is turned away on the next apply_bursary request
C1_Witness ==
    /\ response.view = "apply_bursary"
    /\ response.status = "render:already_applied"
    /\ \E r \in supportRequests :
          r.resolved /\ r.student = student_profile(response.user).id
    /\ \E a \in ApplicationsOf(student_profile(response.user).id) : a.id > 1
    /\ Cardinality(ApplicationsOf(student_profile(response.user).id)) = 1

\* ---------------------------------------------------------------- C9
ExactlyOneIdentity ==
    \A s \in students :
        /\ (s.id_number # NoneText) # (s.nemis_number # NoneText)
        /\ s.id_number # <<>> /\ s.nemis_number # <<>>
\* the Student a signup request stores carries the identifier of the chosen
\* id_type, and only that one
SignupStoresChosenIdentity ==
    \A d \in SignupData :
        signup_view(Anonymous, d) =>
            \A s \in students' \ students :
                IF d.id_type = "id"
                THEN s.id_number = Strip(d.id_number) /\ s.nemis_number = NoneText
                ELSE s.nemis_number = Strip(d.nemis_number) /\ s.id_number = NoneText
\* a stored Student keeps its identifiers, except that an ID upgrade sets
\* id_number and clears nemis_number
IdentityKept ==
    \A s \in students : \A t \in students' :
        t.id = s.id =>
            \/ t.id_number = s.id_number /\ t.nemis_number = s.nemis_number
            \/ /\ response'.view = "upgrade_to_id"
               /\ t.id_number # NoneText /\ t.nemis_number = NoneText

FreeSlot == CHOOSE i \in 1..MaxInflight : \A r \in inflight : r.slot # i

apply_bursary_begin(actor, d) ==
    /\ Cardinality(inflight) < MaxInflight
    /\ ApplyReachesWrite(actor, d)
    /\ students' = StudentsAfterLoad(student_profile(actor))
    /\ inflight' = inflight \cup
           {[slot |-> FreeSlot, actor |-> actor,
             inst |-> ApplyLoaded(student_profile(actor)), d |-> d]}
    /\ UNCHANGED <<locations, siteProfiles, today, users, family, applications,
                   officerProfiles, activityLog, supportRequests, seq, response>>

\* the writes, made only if the student still has no application
apply_bursary_finish_rechecked(r) ==
    /\ r \in inflight
    /\ inflight' = inflight \ {r}
    /\ IF AlreadyApplied(r.inst)
       THEN /\ response' = Response("apply_bursary", r.actor, 0,
                                    "render:already_applied", {})
            /\ UNCHANGED <<locations, siteProfiles, today, users, students, family,
                           applications, officerProfiles, activityLog,
                           supportRequests, seq>>
       ELSE ApplyWrite(r.actor, r.inst, r.d, students)

apply_bursary_finish(r) ==
    /\ r \in inflight
    /\ inflight' = inflight \ {r}
    /\ ApplyWrite(r.actor, r.inst, r.d, students)

ApplyBursaryBegin ==
    \E actor \in StudentUsers, d \in ApplyData :
        apply_bursary_begin(actor, Prefilled(actor, d))
ApplyBursaryFinish == \E r \in inflight : apply_bursary_finish(r)
ApplyBursaryTurnedAway ==
    \E actor \in {Anonymous} \cup StudentUsers, d \in ApplyData :
        /\ ~ApplyReachesWrite(actor, Prefilled(actor, d))
        /\ ApplyNoWrite(actor, Prefilled(actor, d))
        /\ UNCHANGED inflight

NextRace ==
    \/ Signup
    \/ ApplyBursaryBegin
    \/ ApplyBursaryFinish
    \/ ApplyBursaryTurnedAway

SpecRace == Init /\ [][NextRace]_vars

\* ---------------------------------------------------------------- C2
\* the writes of a request in flight go through although its student has got
\* an application since the request passed the duplicate check
WriteIgnoresLaterApplication ==
    \A r \in inflight :
        ( /\ apply_bursary_finish(r)
          /\ AlreadyApplied(r.inst)
          /\ ~\E s \in students : s.id # r.inst.id /\ s.email = r.d.email
          /\ Cardinality(GuardiansOfStudent(r.inst.id)) <= 1 )
        => Cardinality({a \in applications' : a.student = r.inst.id})
               = Cardinality(ApplicationsOf(r.inst.id)) + 1

\* C2: the one-application rule rests on an existence check made before the
\* write; interleaved apply_bursary POSTs of one student both pass it and both
\* create an application.
C2_DuplicateApplicationRace == [][WriteIgnoresLaterApplication]_vars

\* two applications of one student, left by two interleaved POSTs
C2_Witness ==
    \E s \in students :
        /\ Cardinality(ApplicationsOf(s.id)) = 2
        /\ response.view = "apply_bursary"
        /\ response.user = UserOf(s.user)

\* ------------------------------------------------------ deciding applications
\* Students sign up and apply with valid forms; every user, logged in or not,
\* sends every status update.
SignupValid ==
    \E d \in {SignupBase, SignupNemis} : signup_view(Anonymous, d)
ApplyValid ==
    \E actor \in StudentUsers : apply_bursary(actor, Prefilled(actor, ApplyBase))
UpdateApplicationStatus ==
    \E actor \in Actors, pk \in ApplicationIds, d \in UpdateData :
        update_application_status(actor, pk, d)
SubmitByAnyone == \E actor \in Actors : submit_bursary_application(actor)

NextStatus ==
    \/ SignupValid
    \/ ApplyValid
    \/ UpdateApplicationStatus
    \/ SubmitByAnyone

SpecStatus == Init /\ [][NextStatus]_vars

\* ------------------------------------------------------------ support tickets
\* Students sign up and apply with valid forms, tickets come in and the
\* scoped officer decides applications; visitors, students and officers of
\* either constituency send every request of the ticket pages.
TicketActors == {Anonymous, UserOf(1), UserOf(2)} \cup StudentUsers
OfficerSupportRequestDetail ==
    \E actor \in TicketActors, pk \in SupportRequestIds, d \in TicketData :
        officer_support_request_detail(actor, pk, d)
ResolveSupportRequest ==
    \E actor \in TicketActors, pk \in SupportRequestIds :
        resolve_support_request(actor, pk)

NextTickets ==
    \/ SignupValid
    \/ ApplyValid
    \/ StoreSupportRequest
    \/ DecideApplication
    \/ OfficerSupportRequestDetail
    \/ ResolveSupportRequest

SpecTickets == Init /\ [][NextTickets]_vars

\* ---------------------------------------------------------------- C3
\* the user has an officer profile with the application's constituency and
\* bursary_type
ScopedFor(user, a) ==
    \E o \in OfficerProfilesOf(user) :
        o.constituency = a.constituency /\ o.bursary_type = a.bursary_type
\* an update_application_status request leaves every application as stored
\* unless its acting user is scoped for it
UpdateOnlyByScopedOfficer ==
    response'.view = "update_application_status" =>
        \A a \in applications : a \in applications' \/ ScopedFor(response'.user, a)

\* C3: update_application_status changes an application's status, feedback
\* or amount_awarded only when the acting user has an officer profile with the
\* application's constituency and bursary_type; every other acting user
\* leaves the application unchanged.
C3_UpdateOnlyByScopedOfficer == [][UpdateOnlyByScopedOfficer]_vars

\* an application the scoped officer approved, and the county officer of the
\* same constituency turned away on it
C3_Witness ==
    /\ response.view = "update_application_status"
    /\ response.user = UserOf(3)
    /\ response.status = "redirect:officer_dashboard"
    /\ \E a \in ApplicationsWithId(response.target) :
          /\ a.status = "approved"
          /\ a.constituency = officer_profile(UserOf(3)).constituency
          /\ a.bursary_type # officer_profile(UserOf(3)).bursary_type
    /\ Len(activityLog) = 1 /\ activityLog[1].officer = 1

\* ---------------------------------------------------------------- C7
StatusChanges ==
    {<<a, b>> \in applications \X applications' : a.id = b.id /\ a.status # b.status}
CreatedApplications ==
    {b \in applications' : \A a \in applications : a.id # b.id}

RemovedApplications ==
    {a \in applications : \A b \in applications' : b.id # a.id}

\* C10: an application is removed only by the support-ticket request of a
\* user who has an officer profile; no request of a student or of any user
\* without an officer profile deletes an application.
C10_DeletedOnlyByOfficer ==
    [][ RemovedApplications # {} =>
            /\ response'.view = "officer_support_request_detail"
            /\ HasOfficerProfile(response'.user) ]_vars

\* ---------------------------------------------------------------- C11
\* the tickets whose resolved flag or officer response the step changes
AnsweredTickets ==
    {r \in supportRequests :
        \E r2 \in supportRequests' :
            /\ r2.id = r.id
            /\ r2.resolved # r.resolved \/ r2.officer_action # r.officer_action}

\* C11: the resolved flag and the officer_action of a SupportRequest are set
\* only by a user who has an officer profile; a request of any other user to
\* the detail or resolve pages leaves every ticket as it was.
C11_AnsweredOnlyByOfficer ==
    [][ AnsweredTickets # {} => HasOfficerProfile(response'.user) ]_vars

\* ---------------------------------------------------------------- C12
\* C12: the re-application action of the ticket page deletes an application
\* only when its status is rejected; a pending or approved application is
\* never deleted by it.
C12_OnlyRejectedDeleted ==
    [][ response'.view = "officer_support_request_detail" =>
            \A a \in RemovedApplications : a.status = "rejected" ]_vars

\* -------------------------------------------------- the site profile's scope
\* The admin adds and changes site profiles and deletes counties and
\* constituencies, site profiles are saved through the model, and students
\* sign up and apply in between.
SiteFormBase ==
    [profile_type |-> "constituency", county |-> "k1", constituency |-> "c1",
     is_active |-> TRUE, application_deadline |-> NoDate,
     branding_name |-> BursaryFlow, branding_logo |-> NoneText]
SiteFormData ==
    { SiteFormBase,
      [SiteFormBase EXCEPT !.profile_type = "county"],
      [SiteFormBase EXCEPT !.county = None, !.constituency = "c2"],
      [SiteFormBase EXCEPT !.profile_type = "county", !.county = None],
      [SiteFormBase EXCEPT !.profile_type = ""],
      [SiteFormBase EXCEPT !.profile_type = "county", !.county = "k2",
                           !.constituency = None, !.is_active = FALSE] }
SiteRowData ==
    { [county |-> k, constituency |-> c, is_active |-> TRUE,
       application_deadline |-> NoDate,
       branding_name |-> BursaryFlow, branding_logo |-> NoneText]
      : k \in {None, "k1"}, c \in {None, "c2"} }

AdminSiteProfileSave ==
    \E target \in 0..MaxSiteProfiles, d \in SiteFormData : admin_site_profile_save(target, d)
SiteProfileCreate == \E d \in SiteRowData : site_profile_create(d)
AdminDeleteConstituency == \E c \in Constituencies : admin_delete_constituency(c)
AdminDeleteCounty == \E k \in Counties : admin_delete_county(k)

NextSite ==
    \/ AdminSiteProfileSave
    \/ SiteProfileCreate
    \/ AdminDeleteConstituency
    \/ AdminDeleteCounty
    \/ SignupValid
    \/ ApplyValid

SpecSite == Init /\ [][NextSite]_vars

\* ---------------------------------------------------------------- C8
\* C8: every stored SiteProfile has exactly one of county and constituency
\* set, over any sequence of SiteProfile saves (model save and the admin
\* form) and deletions of the County or Constituency it references.
C8_ExactlyOneScope ==
    \A p \in siteProfiles : (p.county # None) # (p.constituency # None)

\* --------------------------------------------------------------- the pages
\* Students sign up and apply, the admin moves the site between the two
\* constituencies and the scoped officer decides applications; visitors,
\* students and officers open every page that shows application data.
ViewActors == {Anonymous, UserOf(1), UserOf(2), UserOf(4)} \cup StudentUsers
StatusParameters == {"", "approved"}

SwitchSite ==
    \E d \in {x \in SiteFormData : x.profile_type = "constituency" /\ x.is_active} :
        admin_site_profile_save(1, d)
OfficerDashboard ==
    \E actor \in ViewActors, status \in StatusParameters : officer_dashboard(actor, status)
OfficerReports == \E actor \in ViewActors : officer_reports(actor)
OfficerApplications ==
    \E actor \in ViewActors, status \in StatusParameters : officer_applications(actor, status)
ExportApplicationsCsv ==
    \E actor \in ViewActors, status \in StatusParameters :
        export_applications_csv(actor, status)
ExportApplicationsPdf ==
    \E actor \in ViewActors, status \in StatusParameters :
        export_applications_pdf(actor, status)
ApplicationDetail ==
    \E actor \in ViewActors, pk \in ApplicationIds : application_detail(actor, pk)
DownloadSingleApplication ==
    \E actor \in ViewActors, pk \in ApplicationIds : download_single_application(actor, pk)
DownloadApplicationsByStatus ==
    \E actor \in ViewActors, status \in {"approved"} :
        download_applications_by_status(actor, status)
StudentDashboard == \E actor \in ViewActors : student_dashboard(actor)
ApplicationPreview == \E actor \in ViewActors : application_preview(actor)
ApplicationPdf == \E actor \in ViewActors : application_pdf(actor)

NextViews ==
    \/ SignupValid
    \/ ApplyValid
    \/ SwitchSite
    \/ DecideApplication
    \/ OfficerDashboard
    \/ OfficerReports
    \/ OfficerApplications
    \/ ExportApplicationsCsv
    \/ ExportApplicationsPdf
    \/ ApplicationDetail
    \/ DownloadSingleApplication
    \/ DownloadApplicationsByStatus
    \/ StudentDashboard
    \/ ApplicationPreview
    \/ ApplicationPdf

SpecViews == Init /\ [][NextViews]_vars

\* ---------------------------------------------------------------- C4
OfficerViews ==
    {"officer_dashboard", "application_detail", "officer_applications",
     "export_applications_csv", "export_applications_pdf",
     "download_single_application", "download_applications_by_status",
     "officer_reports"}
ReturnedApplications == {a \in applications : a.id \in response.apps}

\* C4: every officer-facing view returns to the acting user only applications
\* whose constituency and bursary_type are those of the user's officer
\* profile, and nothing to a user without an officer profile.
C4_OfficerViewsAreScoped ==
    response.view \in OfficerViews =>
        \A a \in ReturnedApplications : ScopedFor(response.user, a)

\* ---------------------------------------------------------------- C5
CountyScoped(user) ==
    \E o \in OfficerProfilesOf(user) : o.bursary_type = "county" /\ o.constituency = None
ApplicationsOfCounty(k) ==
    {a \in applications : ConstituencyCounty(a.constituency) = k}

\* C5: for a county-scoped officer the dashboard and the reports list exactly
\* the applications whose constituency belongs to the officer's county (one
\* county, whichever it is; the dashboard narrowed by the status parameter if
\* one is sent).
C5_CountyOfficerSeesCounty ==
    CountyScoped(response.user) =>
        /\ response.status = "render:reports" =>
              \E k \in Counties : response.apps = Ids(ApplicationsOfCounty(k))
        /\ response.status = "render:dashboard" =>
              \E k \in Counties, status \in StatusParameters :
                  response.apps = Ids(FilterStatus(ApplicationsOfCounty(k), status))

\* ---------------------------------------------------------------- C6
OwnApplication(user, a) == \E st \in StudentsOf(user) : a.student = st.id

\* C6: through every view a student or a visitor can reach, a user who is
\* not an officer obtains the data of an application only if it belongs to
\* the user's own Student record.
C6_StudentsSeeOwnApplication ==
    ~HasOfficerProfile(response.user) =>
        \A a \in ReturnedApplications : OwnApplication(response.user, a)

\* -------------------------------------------- the application's constituency
\* StudentAdmin: the change page of a Student, here changing the constituency
admin_student_save(student_id, c) ==
    /\ \E s \in students : s.id = student_id
    /\ c \in constituencies \cup {None}
    /\ students' = {IF s.id = student_id
                    THEN StudentClean([s EXCEPT !.constituency = c]) ELSE s
                    : s \in students}
    /\ response' = Response("admin:student", Staff, student_id, "redirect:changelist", {})
    /\ UNCHANGED <<locations, siteProfiles, today, users, family, applications,
                   officerProfiles, activityLog, supportRequests, seq, inflight>>

\* Students sign up and apply, the admin switches the site and moves
\* students to another constituency, the officer decides applications and
\* lets students apply again.
AdminStudentSave ==
    \E sid \in StudentIds, c \in Constituencies \cup {None} : admin_student_save(sid, c)

NextConstituency ==
    \/ SignupValid
    \/ ApplyValid
    \/ SwitchSite
    \/ AdminStudentSave
    \/ DecideApplication
    \/ StoreSupportRequest
    \/ AllowReapply

SpecConstituency == Init /\ [][NextConstituency]_vars

\* ---------------------------------------------------------------- C13
\* every application the step creates is created by apply_bursary for the
\* Student of the requesting user, with that student's constituency
CreatedWithStudentConstituency ==
    \A b \in CreatedApplications :
        /\ response'.view = "apply_bursary"
        /\ \E s \in students' :
              /\ s.id = b.student
              /\ UserOf(s.user) = response'.user
              /\ b.constituency = s.constituency
              /\ b.constituency # None

\* no stored application gets another constituency
ConstituencyKept ==
    \A a \in applications : \A b \in applications' :
        b.id = a.id => b.constituency = a.constituency

\* C13: an application's constituency is set at creation to the submitting
\* student's constituency and never changes afterwards, whatever officers
\* decide, however tickets are resolved and wherever the student moves.
C13_ConstituencyFixedAtSubmission ==
    [][ CreatedWithStudentConstituency /\ ConstituencyKept ]_vars

\* a decided application of c1 whose student has since been moved to c2
C13_Witness ==
    \E a \in applications : \E s \in students :
        /\ s.id = a.student
        /\ a.constituency = "c1"
        /\ s.constituency = "c2"
        /\ a.status = "approved"

\* ------------------------------------------------------------- the deadline
\* the date moves on to the next day
DayPasses ==
    /\ today < MaxDay
    /\ today' = today + 1
    /\ response' = Response("none", Anonymous, 0, "none", {})
    /\ UNCHANGED <<locations, siteProfiles, users, students, family, applications,
                   officerProfiles, activityLog, supportRequests, seq, inflight>>

\* Students sign up and send every apply_bursary request while the admin sets
\* and clears the deadline of the site, switches the site off and on, and
\* the days pass.
DeadlineFormData ==
    { [SiteFormBase EXCEPT !.is_active = act, !.application_deadline = dl]
      : act \in BOOLEAN, dl \in {NoDate, {1}} }
SetDeadline == \E d \in DeadlineFormData : admin_site_profile_save(1, d)

NextDeadline ==
    \/ SignupValid
    \/ ApplyBursary
    \/ SetDeadline
    \/ DayPasses

SpecDeadline == Init /\ [][NextDeadline]_vars

\* ---------------------------------------------------------------- C14
\* the active site has a deadline earlier than the current date
DeadlinePassed ==
    /\ HasActiveSite
    /\ \E d \in get_active.application_deadline : d < today

\* C14: while the active site's deadline is earlier than the current date no
\* apply_bursary request creates or changes a student, guardian, application,
\* sibling or document; on the deadline date itself, with no deadline or with
\* no active site the deadline check turns no request away.
C14_DeadlineGate ==
    [][ response'.view = "apply_bursary" =>
          /\ DeadlinePassed =>
                UNCHANGED <<students, guardians, siblings, applications, documents>>
          /\ (DeadlinePassed /\ response'.user.is_authenticated) <=>
                response'.status = "render:deadline_closed" ]_vars

\* a student who has not applied is turned away the day after the deadline,
\* after another student applied on the deadline date or before
C14_Witness ==
    /\ response.view = "apply_bursary"
    /\ response.status = "render:deadline_closed"
    /\ today = 2
    /\ get_active.application_deadline = {1}
    /\ HasStudentProfile(response.user)
    /\ ApplicationsOf(student_profile(response.user).id) = {}
    /\ applications # {}

\* ----------------------------------------------------- submitting the forms
\* Students sign up and POST the application forms, valid and invalid, with
\* the notification going through or failing; the admin switches the site.
ApplyPost ==
    \E actor \in StudentUsers, d \in {x \in ApplyData : x.method = "POST"} :
        apply_bursary(actor, Prefilled(actor, d))

NextSubmit ==
    \/ SignupValid
    \/ ApplyPost
    \/ SwitchSite
    \/ StudentProfileEdit

SpecSubmit == Init /\ [][NextSubmit]_vars

\* ---------------------------------------------------------------- C15
\* the step stores an application with its guardian, sibling and document
AllPersisted ==
    \E b \in CreatedApplications :
        /\ \E g \in guardians' : g.student = b.student
        /\ \E x \in siblings' \ siblings : x.student = b.student
        /\ \E x \in documents' \ documents : x.application = b.id
NothingPersisted ==
    UNCHANGED <<students, guardians, siblings, applications, documents>>

\* C15: an apply_bursary POST is all-or-nothing: either student, guardian,
\* application, siblings and documents are all stored, or no student,
\* guardian, application, sibling or document row is created or changed.
C15_AllOrNothing ==
    [][ response'.view = "apply_bursary" => AllPersisted \/ NothingPersisted ]_vars

\* ---------------------------------------------------------------- C16
\* C16: the notifications are sent only after the application is stored, and
\* a failure to send the e-mail or the SMS does not keep the submission from
\* completing: the application stays stored and the request ends with the
\* redirect to the student dashboard.
C16_NotificationsBestEffort ==
    [][ CreatedApplications # {} =>
            /\ response'.view = "apply_bursary"
            /\ response'.status = "redirect:student_dashboard" ]_vars

\* -------------------------------------------------------- mock verification
\* verify_id and verify_nemis are called with every combination of these
\* identifiers, scope names and guardian IDs; the call is kept with its
\* arguments and, once the function has run, its result.
ScopeNames ==
    { NoneText, <<>>,
      <<" ","S","A","M","B","U","R","U"," ">>,
      <<"n","a","i","r","o","b","i">>,
      <<"K","i","s","u","m","u">>,
      <<"S","a","m","b","u","r","u"," ","W","e","s","t">> }
IdInputs ==
    { NoneText, <<>>, Id200001, Id123456, <<"2">>, <<"1","2","3","4","5">>,
      <<"2","0","0","0","0","a">>, <<" ","2","0","0","0","0","1">>,
      <<"3","0","0","0","0","0","1">> }
NemisInputs ==
    { NoneText, <<>>, NemisSA01, <<"s","a","0","1">>, <<"N","A","1">>, <<"S">>,
      <<"K","S","0","1">>, <<"K","S","0">> }
GuardianInputs == { NoneText, <<>>, Id200001, Id123456 }

Called(view, args, result) == [view |-> view, args |-> args, result |-> result]
NoResult == <<>>

\* the calls that are about to be made
InitVerify ==
    /\ InitData
    /\ \/ \E id_number \in IdInputs, county_name \in ScopeNames,
            constituency_name \in ScopeNames :
            response = Called("verify_id",
                              <<id_number, county_name, constituency_name, NoneText>>,
                              NoResult)
       \/ \E nemis_number \in NemisInputs, county_name \in ScopeNames,
            constituency_name \in ScopeNames, guardian_id \in GuardianInputs :
            response = Called("verify_nemis",
                              <<nemis_number, county_name, constituency_name, guardian_id>>,
                              NoResult)

VerifyId ==
    /\ response.view = "verify_id"
    /\ response.result = NoResult
    /\ response' = [response EXCEPT !.result =
                       verify_id(response.args[1], response.args[2], response.args[3])]
    /\ UNCHANGED <<locations, siteProfiles, today, users, students, family, applications,
                   officerProfiles, activityLog, supportRequests, seq, inflight>>
VerifyNemis ==
    /\ response.view = "verify_nemis"
    /\ response.result = NoResult
    /\ response' = [response EXCEPT !.result =
                       verify_nemis(response.args[1], response.args[2], response.args[3],
                                    response.args[4])]
    /\ UNCHANGED <<locations, siteProfiles, today, users, students, family, applications,
                   officerProfiles, activityLog, supportRequests, seq, inflight>>

NextVerify ==
    \/ VerifyId
    \/ VerifyNemis

SpecVerify == InitVerify /\ [][NextVerify]_vars

\* the last request is a call of the verification function that has returned
IsCall(view) == response.view = view /\ response.result # NoResult
\* the scope name of the call: the county name, else the constituency name
CallScope == PyOr(response.args[2], response.args[3])
CallKey == StrLower(Strip(CallScope))
CallRejected ==
    /\ ~response.result[1]
    /\ response.result[3] = NoneText
    /\ response.result[4] = NoneText

\* ---------------------------------------------------------------- C17
\* C17: for a scope name with a rule in the table (after trimming and
\* lower-casing) verify_id is valid exactly when the ID starts with the
\* rule's ID prefix and verify_nemis exactly when the upper-cased NEMIS number
\* starts with the rule's NEMIS prefix, whatever the guardian ID; every
\* mismatch is rejected with both locations null.
C17_PrefixRule ==
    /\ (IsCall("verify_id") /\ Truthy(CallScope) /\ HasRule(CallKey)) =>
          /\ response.result[1] <=>
                StartsWith(response.args[1], MOCK_RULES(CallKey).id_prefix)
          /\ ~response.result[1] => CallRejected
    /\ (IsCall("verify_nemis") /\ Truthy(CallScope) /\ HasRule(CallKey)) =>
          /\ response.result[1] <=>
                StartsWith(StrUpper(response.args[1]), MOCK_RULES(CallKey).nemis_prefix)
          /\ ~response.result[1] => CallRejected

\* a lower-case NEMIS number is verified for the scope " SAMBURU " although
\* the guardian ID has another county's prefix
C17_Witness ==
    /\ IsCall("verify_nemis")
    /\ response.args = << <<"s","a","0","1">>, <<" ","S","A","M","B","U","R","U"," ">>,
                          NoneText, Id123456 >>
    /\ response.result[1]

\* ---------------------------------------------------------------- C18
\* C18: for a non-empty scope name without a rule verify_id accepts exactly
\* the IDs of digits only with length at least 6 and verify_nemis exactly the
\* NEMIS numbers of length at least 4; an empty identifier or a missing scope
\* name is always rejected.
C18_DefaultRule ==
    (IsCall("verify_id") \/ IsCall("verify_nemis")) =>
        /\ (Truthy(CallScope) /\ ~HasRule(CallKey) /\ Truthy(response.args[1])) =>
              /\ IsCall("verify_id") =>
                    (response.result[1] <=>
                        /\ \A i \in 1..Len(response.args[1]) :
                              response.args[1][i] \in DigitChars
                        /\ Len(response.args[1]) >= 6)
              /\ IsCall("verify_nemis") =>
                    (response.result[1] <=> Len(response.args[1]) >= 4)
        /\ (~Truthy(response.args[1]) \/ ~Truthy(CallScope)) => CallRejected

\* a five-digit ID is turned away for a scope without a rule
C18_Witness ==
    /\ IsCall("verify_id")
    /\ response.args[1] = <<"1","2","3","4","5">>
    /\ response.args[2] = <<"K","i","s","u","m","u">>
    /\ ~response.result[1]

\* ------------------------------------------------------------ student login
\* StudentIDorNEMISBackend.authenticate: the first User (lowest primary key)
\* whose Student has the identifier as id_number or nemis_number, if the
\* password is that user's; the empty set for None
StudentBackendUsers(username, password) ==
    LET found == {u \in users :
                    \E s \in students :
                        /\ s.user = u.id
                        /\ s.id_number = username \/ s.nemis_number = username}
    IN  IF found = {} THEN {}
        ELSE {u \in {First(found)} : u.password = password}

\* ModelBackend.authenticate: the active User with this username and password
ModelBackendUsers(username, password) ==
    {u \in users : u.username = username /\ u.password = password /\ u.is_active}

\* django.contrib.auth.authenticate over AUTHENTICATION_BACKENDS, in order
authenticate(username, password) ==
    IF StudentBackendUsers(username, password) # {}
    THEN StudentBackendUsers(username, password)
    ELSE ModelBackendUsers(username, password)

\* StudentLoginForm(request.POST) binds the POST data to the first parameter
\* of __init__, which is request, so the form has no data
StudentLoginFormIsBound(d) == FALSE

\* AuthenticationForm.clean on a bound form: authenticate, then
\* confirm_login_allowed
StudentLoginFormIsValid(d) ==
    /\ StudentLoginFormIsBound(d)
    /\ Truthy(d.username)
    /\ \E u \in authenticate(d.username, d.password) : u.is_active

\* the response of the login page with the submitted identifier and password
LoginResponse(user, status, d) ==
    [view |-> "student_login", user |-> user, target |-> 0, status |-> status,
     apps |-> {}, username |-> d.username, password |-> d.password]

\* student_login_view; the user of the response is the user of the session
student_login_view(d) ==
    /\ UNCHANGED <<locations, siteProfiles, today, users, students, family, applications,
                   officerProfiles, activityLog, supportRequests, seq, inflight>>
    /\ IF d.method = "POST" /\ StudentLoginFormIsValid(d)
       THEN LET user == CHOOSE u \in authenticate(d.username, d.password) : TRUE IN
            IF \E s \in students : s.user = user.id
            THEN response' = LoginResponse(UserOf(user.id), "redirect:student_dashboard", d)
            ELSE response' = LoginResponse(Anonymous, "render:student_login", d)
       ELSE response' = LoginResponse(Anonymous, "render:student_login", d)

\* Students sign up, edit their profile and apply; visitors send the login
\* form with the identifiers and passwords used at signup and with others.
LoginBase == [method |-> "POST", username |-> Id200001, password |-> "pw"]
LoginData ==
    { [LoginBase EXCEPT !.username = n, !.password = pw]
      : n \in {Id200001, NemisSA01, NemisSA02, TextA1}, pw \in {"pw", "bad"} }
    \cup { [method |-> "GET", username |-> <<>>, password |-> ""] }
StudentLogin == \E d \in LoginData : student_login_view(d)

NextLogin ==
    \/ SignupValid
    \/ StudentProfileEdit
    \/ ApplyValid
    \/ StudentLogin

SpecLogin == Init /\ [][NextLogin]_vars

\* ---------------------------------------------------------------- C19
\* the submitted identifier is some Student's id_number or nemis_number and
\* the submitted password is the password of that student's account
CredentialsMatch ==
    \E s \in students : \E u \in users :
        /\ u.id = s.user
        /\ s.id_number = response.username \/ s.nemis_number = response.username
        /\ u.password = response.password

\* C19: student_login_view logs a user in if and only if the submitted
\* identifier is the id_number or nemis_number of some Student and the
\* password is that student's account password; a student who has just
\* signed up can log in with the identifier and password they registered.
C19_StudentLogin ==
    response.view = "student_login" =>
        ((response.user.is_authenticated /\ response.status = "redirect:student_dashboard")
            <=> CredentialsMatch)

\* --------------------------------------------------------- asking for support
\* Students sign up, edit their profile, apply and POST valid support forms.
ContactSupportValid ==
    \E actor \in StudentUsers,
       d \in {x \in SupportFormData : x.method = "POST" /\ SupportFormIsValid(x)} :
        contact_support_view(actor, d)

NextSupport ==
    \/ SignupValid
    \/ StudentProfileEdit
    \/ ApplyValid
    \/ ContactSupportValid

SpecSupport == Init /\ [][NextSupport]_vars

\* ---------------------------------------------------------------- C20
\* C20: a logged-in user with a Student record who posts a valid support form
\* to contact_support_view gets exactly one new SupportRequest, linked to
\* that student, unresolved, with no officer response and not marked viewed.
C20_SupportRequestCreated ==
    [][ (response'.view = "contact_support" /\ HasStudentProfile(response'.user)) =>
            \E r \in supportRequests' :
                /\ r \notin supportRequests
                /\ supportRequests' = supportRequests \cup {r}
                /\ r.student = student_profile(response'.user).id
                /\ ~r.resolved
                /\ r.officer_action = NoneText
                /\ ~r.viewed_by_student ]_vars

\* -------------------------------------------------------- context processors
\* what a function body does: return a value or raise an exception
Return(value) == <<"return", value>>
Raise == <<"raise", "Exception">>
Raises(outcome) == outcome[1] = "raise"

\* where a lookup of a context processor can fail
FailPoints == {"none", "cache.get", "query", "cache.set"}

\* site_branding, lines 15-28: the body of the try block.  cached is what
\* cache.get("active_branding") finds: nothing, or a branding stored earlier.
DefaultBranding == [name |-> BursaryFlow, logo |-> NoneText]
BrandingOf(sites) ==
    IF sites = {} THEN DefaultBranding
    ELSE [name |-> First(sites).branding_name,
          logo |-> IF Truthy(First(sites).branding_logo)
                   THEN <<"/media/">> \o First(sites).branding_logo ELSE NoneText]
site_branding_body(cached, fail) ==
    IF fail = "cache.get" THEN Raise
    ELSE IF cached # {} THEN Return(CHOOSE b \in cached : TRUE)
    ELSE IF fail = "query" THEN Raise
    ELSE IF fail = "cache.set" THEN Raise
    ELSE Return(BrandingOf(IF ActiveSites # {} THEN ActiveSites ELSE siteProfiles))

\* site_branding without its try/except
site_branding_unguarded(cached, fail) == site_branding_body(cached, fail)
\* site_branding: any exception of the body becomes the default branding
site_branding(cached, fail) ==
    IF Raises(site_branding_body(cached, fail))
    THEN Return(DefaultBranding) ELSE site_branding_body(cached, fail)

\* officer_context: the officer profile of the user, as a set (empty: None)
officer_context_body(actor, fail) ==
    IF ~actor.is_authenticated THEN Return({})
    ELSE IF fail = "query" THEN Raise
    ELSE Return(OfficerProfilesOf(actor))
officer_context(actor, fail) ==
    IF Raises(officer_context_body(actor, fail))
    THEN Return({}) ELSE officer_context_body(actor, fail)

\* unresolved_support_count, lines 51-70
SitesOfOfficer(officer) ==
    IF officer.constituency # None
    THEN {p \in siteProfiles : p.constituency = officer.constituency}
    ELSE IF officer.bursary_type = "county" /\ officer.constituency # None
    THEN {p \in siteProfiles : p.county = ConstituencyCounty(officer.constituency)}
    ELSE {}
UnresolvedOf(site) ==
    {r \in supportRequests :
        /\ ~r.resolved
        /\ \E s \in students :
              /\ s.id = r.student
              /\ IF site.constituency # None THEN s.constituency = site.constituency
                 ELSE IF site.county # None THEN s.county = site.county
                 ELSE TRUE}
unresolved_support_count_body(actor, fail) ==
    IF ~actor.is_authenticated THEN Return(0)
    ELSE IF fail = "query" THEN Raise
    ELSE IF ~HasOfficerProfile(actor) THEN Return(0)
    ELSE IF SitesOfOfficer(officer_profile(actor)) = {} THEN Return(0)
    ELSE Return(Cardinality(UnresolvedOf(First(SitesOfOfficer(officer_profile(actor))))))
unresolved_support_count(actor, fail) ==
    IF Raises(unresolved_support_count_body(actor, fail))
    THEN Return(0) ELSE unresolved_support_count_body(actor, fail)

\* student_support_feedback_count, lines 81-90; only the admin user is staff
student_support_feedback_count_body(actor, fail) ==
    IF ~actor.is_authenticated \/ actor = Staff THEN Return(0)
    ELSE IF fail = "query" THEN Raise
    ELSE IF ~HasStudentProfile(actor) THEN Return(0)
    ELSE Return(Cardinality({r \in supportRequests :
                                /\ r.student = student_profile(actor).id
                                /\ r.officer_action # NoneText
                                /\ ~r.viewed_by_student}))
student_support_feedback_count(actor, fail) ==
    IF Raises(student_support_feedback_count_body(actor, fail))
    THEN Return(0) ELSE student_support_feedback_count_body(actor, fail)

\* Students sign up and apply, tickets come in and are answered, the admin
\* renames the site and gives it a logo; every page render runs the four
\* context processors, with and without a failing lookup.
ContextActors == {Anonymous, Staff, UserOf(1), UserOf(4)} \cup StudentUsers
SiteName == <<"S","W">>
BrandingFormData ==
    { [SiteFormBase EXCEPT !.branding_name = SiteName, !.branding_logo = <<"l",".","p","n","g">>],
      [SiteFormBase EXCEPT !.branding_name = SiteName],
      [SiteFormBase EXCEPT !.is_active = FALSE] }
CachedBrandings == { {}, {DefaultBranding}, {[name |-> SiteName, logo |-> NoneText]} }
SetBranding == \E d \in BrandingFormData : admin_site_profile_save(1, d)

Unchanged ==
    UNCHANGED <<locations, siteProfiles, today, users, students, family, applications,
                officerProfiles, activityLog, supportRequests, seq, inflight>>
SiteBrandingCall ==
    /\ \E cached \in CachedBrandings, fail \in FailPoints :
          response' = Called("site_branding", <<cached, fail>>, site_branding(cached, fail))
    /\ Unchanged
OfficerContextCall ==
    /\ \E actor \in ContextActors, fail \in {"none", "query"} :
          response' = Called("officer_context", <<actor, fail>>,
                             officer_context(actor, fail))
    /\ Unchanged
UnresolvedSupportCountCall ==
    /\ \E actor \in ContextActors, fail \in {"none", "query"} :
          response' = Called("unresolved_support_count", <<actor, fail>>,
                             unresolved_support_count(actor, fail))
    /\ Unchanged
StudentSupportFeedbackCountCall ==
    /\ \E actor \in ContextActors, fail \in {"none", "query"} :
          response' = Called("student_support_feedback_count", <<actor, fail>>,
                             student_support_feedback_count(actor, fail))
    /\ Unchanged

NextContext ==
    \/ SignupValid
    \/ ApplyValid
    \/ StoreSupportRequest
    \/ AllowReapply
    \/ SetBranding
    \/ SiteBrandingCall
    \/ OfficerContextCall
    \/ UnresolvedSupportCountCall
    \/ StudentSupportFeedbackCountCall

SpecContext == Init /\ [][NextContext]_vars

\* ---------------------------------------------------------------- C21
\* the call of a context processor that the last page render made
Processor(view) == response.view = view
\* the call returned, and returned the default where its body raised
Degrades(body, default) ==
    /\ ~Raises(response.result)
    /\ Raises(body) => response.result = Return(default)

\* C21: no context processor lets an exception out: where a lookup fails it
\* returns its default (BursaryFlow without a logo, no officer, count 0), and
\* site_branding always returns a branding that has a name.
C21_ProcessorsDegrade ==
    /\ Processor("site_branding") =>
          /\ Degrades(site_branding_body(response.args[1], response.args[2]),
                      DefaultBranding)
          /\ Truthy(response.result[2].name)
    /\ Processor("officer_context") =>
          Degrades(officer_context_body(response.args[1], response.args[2]), {})
    /\ Processor("unresolved_support_count") =>
          Degrades(unresolved_support_count_body(response.args[1], response.args[2]), 0)
    /\ Processor("student_support_feedback_count") =>
          Degrades(student_support_feedback_count_body(response.args[1], response.args[2]),
                   0)

\* the site has its own name and an unresolved ticket, nothing is cached and
\* the query of site_branding fails: the default branding is returned
C21_Witness ==
    /\ Processor("site_branding")
    /\ response.args = <<{}, "query">>
    /\ response.result = Return(DefaultBranding)
    /\ \E p \in ActiveSites : p.branding_name = SiteName
    /\ \E r \in supportRequests : ~r.resolved

\* ----------------------------------------------------------- officer accounts
\* officers that add_officer may create on top of the initial ones
MaxAddedOfficers == 1

\* login_required: the session's user is reloaded by ModelBackend.get_user,
\* which gives no user once the account is inactive
LoggedIn(actor) ==
    actor.is_authenticated /\ \E u \in users : u.id = actor.id /\ u.is_active

\* manager_required: the user has an officer profile with is_manager
manager_required(actor) == HasOfficerProfile(actor) /\ officer_profile(actor).is_manager

\* a lookup of officers that ignores the manager's constituency
OfficersAnywhere(profile) == officerProfiles
\* OfficerProfile.objects.filter(constituency=profile.constituency)
OfficersOfManager(profile) ==
    {o \in officerProfiles : o.constituency = profile.constituency}

\* a page of the officer area, with the officers it lists
OfficersPage(view, user, target, status, officers) ==
    [view |-> view, user |-> user, target |-> target, status |-> status,
     apps |-> {}, officers |-> officers]

\* what the officer-management views leave alone
OfficerFrame ==
    UNCHANGED <<locations, siteProfiles, today, students, family, applications,
                supportRequests, inflight>>
OfficerNoWrite == UNCHANGED <<users, officerProfiles, activityLog, seq>>

\* why a request does not reach the body of a manager view
ManagerGate(actor) ==
    IF ~LoggedIn(actor) THEN "redirect:login"
    ELSE IF ~manager_required(actor) THEN "redirect:officer_dashboard"
    ELSE "pass"

\* manage_officers: the active officers of the manager's constituency
manage_officers(actor) ==
    /\ OfficerFrame
    /\ OfficerNoWrite
    /\ IF ManagerGate(actor) # "pass"
       THEN response' = OfficersPage("manage_officers", actor, 0, ManagerGate(actor), {})
       ELSE response' = OfficersPage("manage_officers", actor, 0, "render:manage_officers",
                            {o.id : o \in {x \in OfficersOfManager(officer_profile(actor)) :
                                             x.is_active}})

\* OfficerUserForm on the User with primary key pk (-1 for a new one):
\* clean_username, the unique username of auth_user, the required password
\* and the e-mail check of clean
OfficerUserFormIsValid(pk, d) ==
    /\ IsDigit(d.username) /\ Len(d.username) = 8
    /\ ~\E u \in users : u.id # pk /\ u.username = d.username
    /\ d.password # ""
    /\ d.email # <<>> => ~\E u \in users : u.id # pk /\ u.email = d.email

\* OfficerProfileForm: the required e-mail, unused by any other User
OfficerProfileFormIsValid(pk, d) ==
    /\ d.email # <<>>
    /\ ~\E u \in users : u.id # pk /\ u.email = d.email

NextOfficerId == Last(officerProfiles).id + 1

\* the rows add_officer stores
AddedUser(d) ==
    [id |-> seq.user + 1, username |-> d.username, email |-> d.email,
     password |-> d.password, is_active |-> TRUE]
AddedOfficer(manager_profile) ==
    [id |-> NextOfficerId, user |-> seq.user + 1,
     constituency |-> manager_profile.constituency,
     bursary_type |-> manager_profile.bursary_type,
     is_active |-> TRUE, is_manager |-> FALSE]

\* add_officer
add_officer(actor, d) ==
    /\ OfficerFrame
    /\ IF ManagerGate(actor) # "pass"
       THEN /\ OfficerNoWrite
            /\ response' = OfficersPage("add_officer", actor, 0, ManagerGate(actor), {})
       ELSE IF /\ d.method = "POST"
               /\ OfficerUserFormIsValid(-1, d)
               /\ OfficerProfileFormIsValid(-1, d)
       THEN /\ Len(activityLog) < MaxLog
            /\ Cardinality(officerProfiles)
                  < Cardinality(InitOfficerProfiles) + MaxAddedOfficers
            /\ users' = users \cup {AddedUser(d)}
            /\ officerProfiles' = officerProfiles \cup {AddedOfficer(officer_profile(actor))}
            /\ seq' = [seq EXCEPT !.user = @ + 1]
            /\ activityLog' = LogAppend(activityLog, officer_profile(actor), "add_officer")
            /\ response' = OfficersPage("add_officer", actor, NextOfficerId,
                                        "redirect:manage_officers", {})
       ELSE /\ OfficerNoWrite
            /\ response' = OfficersPage("add_officer", actor, 0, "render:add_officer", {})

\* get_object_or_404(OfficerProfile, id=officer_id, constituency=profile.constituency)
ManagedOfficer(profile, officer_id) ==
    {o \in OfficersOfManager(profile) : o.id = officer_id}

\* the User row edit_officer stores
EditedUser(user, d) ==
    [user EXCEPT !.username = d.username, !.email = d.email, !.password = d.password]

\* edit_officer; the profile form stores phone, picture and designation only
edit_officer(actor, officer_id, d) ==
    /\ OfficerFrame
    /\ UNCHANGED <<officerProfiles, seq>>
    /\ IF ManagerGate(actor) # "pass"
       THEN /\ UNCHANGED <<users, activityLog>>
            /\ response' = OfficersPage("edit_officer", actor, officer_id,
                                        ManagerGate(actor), {})
       ELSE IF ManagedOfficer(officer_profile(actor), officer_id) = {}
       THEN /\ UNCHANGED <<users, activityLog>>
            /\ response' = OfficersPage("edit_officer", actor, officer_id, "error404", {})
       ELSE LET officer == First(ManagedOfficer(officer_profile(actor), officer_id))
                user == CHOOSE u \in users : u.id = officer.user
            IN  IF /\ d.method = "POST"
                   /\ OfficerUserFormIsValid(user.id, d)
                   /\ OfficerProfileFormIsValid(user.id, d)
                THEN /\ Len(activityLog) < MaxLog
                     /\ users' = (users \ {user}) \cup {EditedUser(user, d)}
                     /\ activityLog' = LogAppend(activityLog, officer_profile(actor),
                                                 "edit_officer")
                     /\ response' = OfficersPage("edit_officer", actor, officer_id,
                                                 "redirect:manage_officers", {})
                ELSE /\ UNCHANGED <<users, activityLog>>
                     /\ response' = OfficersPage("edit_officer", actor, officer_id,
                                                 "render:edit_officer", {})

\* delete_officer: the officer and the officer's account are made inactive
delete_officer(actor, officer_id, d) ==
    /\ OfficerFrame
    /\ UNCHANGED seq
    /\ IF ManagerGate(actor) # "pass"
       THEN /\ UNCHANGED <<users, officerProfiles, activityLog>>
            /\ response' = OfficersPage("delete_officer", actor, officer_id,
                                        ManagerGate(actor), {})
       ELSE IF ManagedOfficer(officer_profile(actor), officer_id) = {}
       THEN /\ UNCHANGED <<users, officerProfiles, activityLog>>
            /\ response' = OfficersPage("delete_officer", actor, officer_id, "error404", {})
       ELSE LET officer == First(ManagedOfficer(officer_profile(actor), officer_id))
                user == CHOOSE u \in users : u.id = officer.user
            IN  IF d.method = "POST"
                THEN /\ Len(activityLog) < MaxLog
                     /\ users' = (users \ {user}) \cup {[user EXCEPT !.is_active = FALSE]}
                     /\ officerProfiles' = (officerProfiles \ {officer})
                                             \cup {[officer EXCEPT !.is_active = FALSE]}
                     /\ activityLog' = LogAppend(activityLog, officer_profile(actor),
                                                 "delete_officer")
                     /\ response' = OfficersPage("delete_officer", actor, officer_id,
                                                 "redirect:manage_officers", {})
                ELSE /\ UNCHANGED <<users, officerProfiles, activityLog>>
                     /\ response' = OfficersPage("delete_officer", actor, officer_id,
                                                 "render:confirm_delete", {})

\* the admin site saving an OfficerProfile with other is_active and is_manager
admin_officer_profile_save(actor, officer_id, d) ==
    /\ actor = Staff
    /\ \E o \in officerProfiles :
          /\ o.id = officer_id
          /\ officerProfiles' = (officerProfiles \ {o})
                \cup {[o EXCEPT !.is_active = d.is_active, !.is_manager = d.is_manager]}
    /\ OfficerFrame
    /\ UNCHANGED <<users, activityLog, seq>>
    /\ response' = OfficersPage("admin_officer_profile_save", actor, officer_id,
                                "redirect:changelist", {})

\* AuthenticationForm.clean of the officer login page
OfficerLoginFormIsValid(d) ==
    /\ Truthy(d.username)
    /\ d.password # ""
    /\ \E u \in authenticate(d.username, d.password) : u.is_active

\* the response of the officer login page: the user of the session it leaves
\* and the credentials that were submitted
OfficerLoginResponse(user, status, d) ==
    [view |-> "officer_login", user |-> user, target |-> 0, status |-> status,
     apps |-> {}, username |-> d.username, password |-> d.password]

\* a profile check that does not look at is_active
OfficerMayLogInInactive(actor) == HasOfficerProfile(actor)
\* form_valid: the user has an officer profile and it is active
OfficerMayLogIn(actor) == HasOfficerProfile(actor) /\ officer_profile(actor).is_active

\* OfficerLoginView.post with form_valid
OfficerLoginView(d) ==
    /\ OfficerFrame
    /\ UNCHANGED <<users, officerProfiles, seq>>
    /\ IF d.method = "POST" /\ OfficerLoginFormIsValid(d)
       THEN LET user == CHOOSE u \in authenticate(d.username, d.password) : TRUE
                actor == UserOf(user.id)
            IN  IF OfficerMayLogIn(actor)
                THEN /\ Len(activityLog) < MaxLog
                     /\ activityLog' = LogAppend(activityLog, officer_profile(actor), "login")
                     /\ response' = OfficerLoginResponse(actor, "redirect:officer_dashboard", d)
                ELSE /\ UNCHANGED activityLog
                     /\ response' = OfficerLoginResponse(Anonymous, "render:officer_login", d)
       ELSE /\ UNCHANGED activityLog
            /\ response' = OfficerLoginResponse(Anonymous, "render:officer_login", d)

\* The manager of c1, officers of both constituencies, a user without a
\* profile and visitors use the officer-management pages and the officer
\* login; the admin site changes the flags of the officer of c2.
Digits8 == <<"1","2","3","4","5","6","7","8">>
OfficerMail == <<"n","@">>
OfficerFormBase ==
    [method |-> "POST", username |-> Digits8, email |-> OfficerMail, password |-> "new-pw"]
OfficerFormData ==
    { OfficerFormBase,
      [OfficerFormBase EXCEPT !.username = <<"o","9">>],
      [OfficerFormBase EXCEPT !.email = <<"o","2","@">>],
      [OfficerFormBase EXCEPT !.method = "GET"] }
OfficerActors == {Anonymous, UserOf(1), UserOf(2), UserOf(3), UserOf(5)}
OfficerIds == 1..(Cardinality(InitOfficerProfiles) + MaxAddedOfficers)
OfficerLoginData ==
    { [method |-> "POST", username |-> n, password |-> pw]
      : n \in {<<"o","1">>, <<"o","2">>, <<"o","3">>, <<"o","5">>, Digits8},
        pw \in {"officer-pw", "new-pw"} }
    \cup { [method |-> "GET", username |-> <<>>, password |-> ""] }

ManageOfficers == \E actor \in OfficerActors : manage_officers(actor)
AddOfficer == \E actor \in OfficerActors, d \in OfficerFormData : add_officer(actor, d)
EditOfficer ==
    \E actor \in OfficerActors, pk \in OfficerIds, d \in OfficerFormData :
        edit_officer(actor, pk, d)
DeleteOfficer ==
    \E actor \in OfficerActors, pk \in OfficerIds,
       d \in {x \in OfficerFormData : x.email = OfficerMail /\ x.username = Digits8} :
        delete_officer(actor, pk, d)
AdminOfficerSave ==
    \E is_active \in BOOLEAN, is_manager \in BOOLEAN :
        admin_officer_profile_save(Staff, 2, [is_active |-> is_active,
                                              is_manager |-> is_manager])
OfficerLogin == \E d \in OfficerLoginData : OfficerLoginView(d)

NextOfficers ==
    \/ ManageOfficers
    \/ AddOfficer
    \/ EditOfficer
    \/ DeleteOfficer
    \/ AdminOfficerSave
    \/ OfficerLogin

SpecOfficers == Init /\ [][NextOfficers]_vars

\* ---------------------------------------------------------------- C22
ManagerViews == {"manage_officers", "add_officer", "edit_officer", "delete_officer"}
\* the officer rows and the accounts that a step wrote
OfficersWritten == (officerProfiles' \ officerProfiles) \cup (officerProfiles \ officerProfiles')
UsersWritten == (users' \ users) \cup (users \ users')

LiveActors(actors) == {a \in actors : ~a.is_authenticated \/ LoggedIn(a)}
TrailActors == LiveActors({Anonymous, UserOf(1), UserOf(3)} \cup StudentUsers)
TrailSignup == signup_view(Anonymous, SignupBase)
TrailStatus ==
    \E actor \in TrailActors, pk \in ApplicationIds,
       d \in {x \in UpdateData : x.method = "POST" /\ x.status # "pending"} :
        update_application_status(actor, pk, d)
TrailTicket ==
    \E actor \in TrailActors, pk \in SupportRequestIds,
       d \in {x \in TicketData : x.method = "POST" /\ ~x.allow_reapply} :
        officer_support_request_detail(actor, pk, d)
TrailResolve ==
    \E actor \in TrailActors, pk \in SupportRequestIds : resolve_support_request(actor, pk)
TrailOfficerData == {x \in OfficerFormData : x.email = OfficerMail /\ x.username = Digits8}
TrailAddOfficer ==
    \E actor \in TrailActors, d \in TrailOfficerData : add_officer(actor, d)
TrailEditOfficer ==
    \E actor \in TrailActors, pk \in {2, 3}, d \in TrailOfficerData :
        edit_officer(actor, pk, d)
TrailDeleteOfficer ==
    \E actor \in TrailActors, pk \in {2, 3}, d \in TrailOfficerData :
        delete_officer(actor, pk, d)
TrailLogin ==
    \E d \in {x \in OfficerLoginData :
                 x.username \in {<<"o","3">>, <<"o","5">>} /\ x.password = "officer-pw"} :
        OfficerLoginView(d)

NextTrail ==
    \/ TrailSignup
    \/ ApplyValid
    \/ StoreSupportRequest
    \/ TrailStatus
    \/ TrailTicket
    \/ TrailResolve
    \/ TrailAddOfficer
    \/ TrailEditOfficer
    \/ TrailDeleteOfficer
    \/ TrailLogin

SpecTrail == Init /\ [][NextTrail]_vars

\* ---------------------------------------------------------------- C23
\* the entry that a view's successful run logs
TrailAction(view) ==
    CASE view = "officer_login" -> {"login"}
      [] view = "update_application_status" -> {"change_status"}
      [] view = "add_officer" -> {"add_officer"}
      [] view = "edit_officer" -> {"edit_officer"}
      [] view = "delete_officer" -> {"delete_officer"}
      [] view = "officer_support_request_detail" -> {"resolve_support_request"}
      [] view = "resolve_support_request" -> {"resolve_support"}
      [] OTHER -> {}
\* the change that the successful run made is in the state the entry is in
TrailEffect(view, target) ==
    CASE view = "officer_login" -> response'.user.is_authenticated
      [] view = "update_application_status" ->
            \E a \in applications' : a.id = target /\ a.status \in {"approved", "rejected"}
      [] view = "add_officer" ->
            \E o \in officerProfiles' \ officerProfiles : o.id = target
      [] view = "edit_officer" ->
            \E o \in officerProfiles' : \E u \in users' :
                o.id = target /\ u.id = o.user /\ u.username = Digits8
      [] view = "delete_officer" ->
            \E o \in officerProfiles' : \E u \in users' :
                o.id = target /\ u.id = o.user /\ ~o.is_active /\ ~u.is_active
      [] view \in {"officer_support_request_detail", "resolve_support_request"} ->
            \E r \in supportRequests' : r.id = target /\ r.resolved
      [] OTHER -> FALSE
\* an officer's request changed what its view is there to change
OfficerActed ==
    /\ TrailAction(response'.view) # {}
    /\ HasOfficerProfile(response'.user)
    /\ \/ applications' # applications
       \/ supportRequests' # supportRequests
       \/ users' # users
       \/ officerProfiles' # officerProfiles
       \/ response'.view = "officer_login"
\* the request was turned away
TurnedAway ==
    \/ ~HasOfficerProfile(response'.user)
    \/ response'.status \in {"redirect:login", "error404", "error405", "error500",
                             "redirect:officer_support_request_detail",
                             "redirect:application_detail"}
    \/ StartsWith(response'.status, "render:")

\* one entry was appended, for the acting officer and the view's action, and
\* the action's change is in place
EntryAppended ==
    /\ Len(activityLog') = Len(activityLog) + 1
    /\ SubSeq(activityLog', 1, Len(activityLog)) = activityLog
    /\ HasOfficerProfile(response'.user)
    /\ activityLog'[Len(activityLog')].officer = officer_profile(response'.user).id
    /\ activityLog'[Len(activityLog')].action \in TrailAction(response'.view)
    /\ TrailEffect(response'.view, response'.target)

\* C23: a successful officer action (login, status change, adding, editing or
\* deactivating an officer, resolving or updating a support request) appends
\* exactly one activity-log entry, attributed to the acting officer and
\* written with the action's state change in place; a rejected or
\* unauthorized attempt appends none.
C23_OneEntryPerOfficerAction ==
    [][ /\ OfficerActed => EntryAppended
        /\ activityLog' # activityLog => EntryAppended
        /\ TurnedAway => activityLog' = activityLog
      ]_vars

\* the log holds the manager's status decision and then the manager's answer
\* to a ticket, and a student's attempt to decide was turned away
C23_Witness ==
    /\ activityLog = <<[officer |-> 1, action |-> "change_status"],
                       [officer |-> 1, action |-> "resolve_support_request"]>>
    /\ \E r \in supportRequests : r.resolved

\* ---------------------------------------------------------------- C24
\* a POST of a logged-in user for a stored application that has a status other
\* than approved or rejected, comes from a user without an officer profile,
\* names an application of another constituency or bursary type, or carries
\* an amount that is not a decimal
UpdateIsRejected(actor, pk, d) ==
    /\ d.method = "POST"
    /\ actor.is_authenticated
    /\ ApplicationsWithId(pk) # {}
    /\ IF d.status \notin {"approved", "rejected"} THEN TRUE
       ELSE IF ~HasOfficerProfile(actor) THEN TRUE
       ELSE LET officer == officer_profile(actor)
                application == First(ApplicationsWithId(pk))
            IN  \/ application.constituency # officer.constituency
                \/ application.bursary_type # officer.bursary_type
                \/ Truthy(d.amount_awarded) /\ ~IsDecimal(d.amount_awarded)

\* C24: a rejected status update (status outside approved/rejected, no
\* officer profile, application outside the officer's constituency or bursary
\* type, amount_awarded that is not a decimal) leaves the application's
\* status, feedback and amount_awarded as stored, appends no log entry and
\* ends in a redirect.
C24_RejectedUpdateChangesNothing ==
    [][ response'.view = "update_application_status" =>
        LET actor == response'.user
            pk == response'.target
        IN  \A d \in UpdateData :
            (UpdateIsRejected(actor, pk, d) /\ update_application_status(actor, pk, d)) =>
                /\ \A a \in applications : a.id = pk =>
                      \E b \in applications' :
                          /\ b.id = pk
                          /\ b.status = a.status
                          /\ b.feedback = a.feedback
                          /\ b.amount_awarded = a.amount_awarded
                /\ activityLog' = activityLog
                /\ response'.status \in {"redirect:officer_dashboard",
                                         "redirect:application_detail"}
      ]_vars

\* the scoped officer sent an amount that is no decimal for a pending
\* application: the page redirects to the application and it is still pending
C24_Witness ==
    /\ response.view = "update_application_status"
    /\ response.status = "redirect:application_detail"
    /\ HasOfficerProfile(response.user)
    /\ \E a \in applications : a.id = response.target /\ a.status = "pending"
    /\ activityLog = <<>>

\* ---------------------------------------------------------------- C25
\* the submitted username and password are those of an active account that
\* has an active officer profile
OfficerCredentials ==
    \E u \in users : \E o \in officerProfiles :
        /\ u.id = response'.user.id
        /\ u.username = response'.username /\ u.password = response'.password
        /\ u.is_active
        /\ o.user = u.id /\ o.is_active

\* C25: OfficerLoginView opens a session only for correct credentials of a
\* user with an active officer profile; otherwise there is no session and no
\* login entry.  delete_officer removes no row and makes the officer and the
\* account inactive, after which the officer cannot log in and is not listed
\* by manage_officers.
C25_OfficerLoginAndSoftDelete ==
    [][ /\ response'.view = "officer_login" =>
              /\ response'.user.is_authenticated => OfficerCredentials
              /\ ~response'.user.is_authenticated => activityLog' = activityLog
        /\ (response'.view = "delete_officer"
                /\ response'.status = "redirect:manage_officers") =>
              /\ {o.id : o \in officerProfiles'} = {o.id : o \in officerProfiles}
              /\ {u.id : u \in users'} = {u.id : u \in users}
              /\ \E o \in officerProfiles' : \E u \in users' :
                    /\ o.id = response'.target /\ u.id = o.user
                    /\ ~o.is_active /\ ~u.is_active
        /\ response'.view = "manage_officers" =>
              \A pk \in response'.officers :
                  \E o \in officerProfiles : o.id = pk /\ o.is_active
      ]_vars

\* officer 3 was deactivated by the manager and then sent the right username
\* and password to the login page: no session, no login entry, both rows kept
C25_Witness ==
    /\ response.view = "officer_login"
    /\ response.username = <<"o","3">> /\ response.password = "officer-pw"
    /\ ~response.user.is_authenticated
    /\ \E o \in officerProfiles : \E u \in users :
          o.id = 3 /\ u.id = o.user /\ ~o.is_active /\ ~u.is_active
    /\ activityLog = <<[officer |-> 1, action |-> "delete_officer"]>>

\* ------------------------------------------------- applying again after a ticket
\* Students sign up and send valid submissions, one at a time or two at once;
\* a ticket is stored for a student and the officer of the constituency
\* resolves it with allow_reapply.
ApplyBeginValid ==
    \E actor \in StudentUsers : apply_bursary_begin(actor, Prefilled(actor, ApplyBase))

NextReapply ==
    \/ SignupValid
    \/ ApplyValid
    \/ ApplyBeginValid
    \/ ApplyBursaryFinish
    \/ StoreSupportRequest
    \/ AllowReapply

SpecReapply == Init /\ [][NextReapply]_vars

\* ---------------------------------------------------------------- C26
\* the step resolved, with allow_reapply, an unresolved ticket of a student
\* who had an application
ResolvedForReapply(sid) ==
    /\ response'.view = "officer_support_request_detail"
    /\ response'.status = "redirect:officer_support_requests"
    /\ \E r \in supportRequests :
          /\ r.id = response'.target /\ r.student = sid /\ ~r.resolved
    /\ ApplicationsOf(sid) # {}
\* the step was a valid submission, with the deadline open, of a student
\* without application
SubmittedAgain(sid) ==
    /\ response'.view = "apply_bursary"
    /\ inflight' = inflight
    /\ HasStudentProfile(response'.user)
    /\ student_profile(response'.user).id = sid
    /\ ~ApplyDeadlineClosed
    /\ ApplicationsOf(sid) = {}

\* C26: when an officer resolves an unresolved support request with
\* allow_reapply for a student who has an application, the student has no
\* application afterwards; the student's next valid submission, with the
\* deadline open, is accepted and creates a new pending application.
C26_ReapplyAfterTicket ==
    [][ \A sid \in StudentIds :
          /\ ResolvedForReapply(sid) => {a \in applications' : a.student = sid} = {}
          /\ SubmittedAgain(sid) =>
                \E a \in applications' \ applications :
                    a.student = sid /\ a.status = "pending"
      ]_vars

\* ------------------------------------------------------ the life of a ticket
\* student_support_request_detail: the student's own ticket is marked as
\* viewed once it carries an officer's answer
student_support_request_detail(actor, pk) ==
    /\ UNCHANGED <<locations, siteProfiles, today, users, students, family, applications,
                   officerProfiles, activityLog, seq, inflight>>
    /\ IF ~actor.is_authenticated
       THEN /\ response' = Response("student_support_request_detail", actor, pk,
                                    "redirect:login", {})
            /\ UNCHANGED supportRequests
       ELSE LET mine == {r \in SupportRequestsWithId(pk) :
                           /\ HasStudentProfile(actor)
                           /\ r.student = student_profile(actor).id}
            IN  IF mine = {}
                THEN /\ response' = Response("student_support_request_detail", actor, pk,
                                             "error404", {})
                     /\ UNCHANGED supportRequests
                ELSE LET sr == First(mine) IN
                     /\ supportRequests' =
                           IF Truthy(sr.officer_action) /\ ~sr.viewed_by_student
                           THEN (supportRequests \ {sr})
                                    \cup {[sr EXCEPT !.viewed_by_student = TRUE]}
                           ELSE supportRequests
                     /\ response' = Response("student_support_request_detail", actor, pk,
                                             "render:student_support_request_detail", {})

\* Students sign up, apply and get a ticket stored; officers, students and
\* visitors post answers with and without allow_reapply, officers resolve
\* tickets and students open them.
TicketLifeData == TicketData \cup {[TicketReapply EXCEPT !.action = TextAbc]}
AnswerTicket ==
    \E actor \in TicketActors, pk \in SupportRequestIds, d \in TicketLifeData :
        officer_support_request_detail(actor, pk, d)
StudentSupportRequestDetail ==
    \E actor \in TicketActors, pk \in SupportRequestIds :
        student_support_request_detail(actor, pk)

NextTicketLife ==
    \/ SignupValid
    \/ ApplyValid
    \/ StoreSupportRequest
    \/ AnswerTicket
    \/ ResolveSupportRequest
    \/ StudentSupportRequestDetail

SpecTicketLife == Init /\ [][NextTicketLife]_vars

\* ---------------------------------------------------------------- C27
\* an officer's POST that went through on a ticket that was already resolved
AnsweredAgain(r) ==
    /\ response'.view = "officer_support_request_detail"
    /\ response'.status = "redirect:officer_support_requests"
    /\ response'.target = r.id
    /\ r.resolved

\* C27: a resolved SupportRequest stays resolved under every operation, and
\* an officer's POST on an already resolved request changes nothing but its
\* officer_action: no application or document is deleted, also with
\* allow_reapply, and viewed_by_student keeps its value.
C27_ResolvedStaysResolved ==
    [][ \A r \in supportRequests :
          /\ r.resolved => \E q \in supportRequests' : q.id = r.id /\ q.resolved
          /\ AnsweredAgain(r) =>
                /\ applications' = applications
                /\ documents' = documents
                /\ \E q \in supportRequests' :
                      /\ q = [r EXCEPT !.officer_action = q.officer_action]
                      /\ supportRequests' = (supportRequests \ {r}) \cup {q}
      ]_vars

\* the officer answered the ticket, the student opened it, and the officer
\* answered again with another text: the ticket is resolved and still marked
\* as viewed, and the student's application is still stored
C27_Witness ==
    /\ response.view = "officer_support_request_detail"
    /\ activityLog = <<[officer |-> 1, action |-> "resolve_support_request"],
                       [officer |-> 1, action |-> "resolve_support_request"]>>
    /\ \E r \in supportRequests :
          /\ r.resolved /\ r.viewed_by_student /\ r.officer_action = TextAbc
          /\ ApplicationsOf(r.student) # {}

\* ------------------------------------------------- verification before signup
\* verify_identity_ajax: the verdict and the HTTP status of the JSON response.
\* The scope passed to the verification is the name of the site's county or,
\* for a constituency-level site, of the county of the site's constituency.
verify_identity_ajax(d) ==
    IF ~HasActiveSite THEN <<FALSE, 400>>
    ELSE LET site_profile == get_active
             county_name ==
                 IF level(site_profile) = "county"
                 THEN CountyName(site_profile.county)
                 ELSE IF level(site_profile) = "constituency"
                 THEN CountyName(ConstituencyCounty(site_profile.constituency))
                 ELSE <<>>
         IN  IF d.id_type = "id"
             THEN <<verify_id(Strip(d.id_number), county_name, NoneText)[1], 200>>
             ELSE IF d.id_type = "nemis"
             THEN <<verify_nemis(Strip(d.nemis_number), county_name, NoneText,
                                 Strip(d.guardian_id_number))[1], 200>>
             ELSE <<FALSE, 400>>

\* The admin moves the site between constituencies and a county or switches
\* it off; visitors send the same identifiers to the AJAX endpoint and to the
\* verification of the signup form.
IdentityData ==
    { [SignupBase EXCEPT !.id_type = t, !.id_number = i, !.nemis_number = n,
                         !.guardian_id_number = g]
      : t \in {"id", "nemis", ""},
        i \in {Id200001, Id123456, <<"2","a">>},
        n \in {NemisSA01, <<"K","S","0","1">>, <<"S","A">>},
        g \in {<<>>, Id200001} }
ChangeSite == \E d \in SiteFormData : admin_site_profile_save(1, d)
VerifyIdentityAjax ==
    /\ \E d \in IdentityData :
          response' = Called("verify_identity_ajax", <<d>>, verify_identity_ajax(d))
    /\ Unchanged
SignupFormVerification ==
    /\ \E d \in IdentityData :
          response' = Called("VerifiedStudentSignupForm.clean", <<d>>,
                             <<HasActiveSite /\ SignupVerification(d)>>)
    /\ Unchanged

NextIdentity ==
    \/ ChangeSite
    \/ VerifyIdentityAjax
    \/ SignupFormVerification

SpecIdentity == Init /\ [][NextIdentity]_vars

\* ---------------------------------------------------------------- C28
\* the verdict of the signup form's verification for the same identifiers
\* under the same active site
FormVerdict(d) == HasActiveSite /\ SignupVerification(d)

\* C28: for the same active site and the same identifier (and guardian ID)
\* verify_identity_ajax and the verification of the signup form give the same
\* verdict, for county-level and constituency-level sites alike.
C28_SameVerdict ==
    response.view = "verify_identity_ajax" =>
        response.result[1] = FormVerdict(response.args[1])

\* ------------------------------------------------------ overlapping signups
\* signup_view runs as three steps, and other signups may run in between:
\* form.is_valid(), then User.objects.create_user, then
\* Student.objects.create with the data cleaned by is_valid().  Nothing wraps
\* the two inserts in a transaction.
signup_begin(d) ==
    /\ Cardinality(inflight) < MaxInflight
    /\ seq.user + Cardinality(inflight) < Cardinality(InitUsers) + MaxStudentUsers
    /\ HasActiveSite
    /\ d.method = "POST"
    /\ SignupFormIsValid(d)
    /\ inflight' = inflight \cup {[slot |-> FreeSlot, d |-> d, user |-> 0,
                                   cleaned |-> SignupStudent(d)]}
    /\ UNCHANGED <<locations, siteProfiles, today, users, students, family, applications,
                   officerProfiles, activityLog, supportRequests, seq, response>>

\* save(), lines 289-303: the username loop and create_user; the insert fails
\* on the unique e-mail of auth_user
signup_create_user(r) ==
    /\ r \in inflight
    /\ r.user = 0
    /\ UNCHANGED <<locations, siteProfiles, today, students, family, applications,
                   officerProfiles, activityLog, supportRequests>>
    /\ IF \E u \in users : u.email = r.d.email
       THEN /\ inflight' = inflight \ {r}
            /\ response' = Response("signup", Anonymous, 0, "error500", {})
            /\ UNCHANGED <<users, seq>>
       ELSE /\ users' = users \cup {SignupUser(r.d)}
            /\ seq' = [seq EXCEPT !.user = @ + 1]
            /\ inflight' = (inflight \ {r}) \cup {[r EXCEPT !.user = seq.user + 1]}
            /\ UNCHANGED response

\* the unique columns of Student: a new row may not repeat a stored value
StudentInsertFails(row) ==
    \E s \in students :
        \/ row.id_number # NoneText /\ s.id_number = row.id_number
        \/ row.nemis_number # NoneText /\ s.nemis_number = row.nemis_number
        \/ s.admission_number = row.admission_number
        \/ s.email = row.email

\* save(), lines 305-315: Student.objects.create for the user just created
signup_create_student(r) ==
    /\ r \in inflight
    /\ r.user # 0
    /\ inflight' = inflight \ {r}
    /\ UNCHANGED <<locations, siteProfiles, today, users, family, applications,
                   officerProfiles, activityLog, supportRequests>>
    /\ LET row == [r.cleaned EXCEPT !.id = seq.student + 1, !.user = r.user] IN
       IF StudentInsertFails(row)
       THEN /\ response' = Response("signup", Anonymous, 0, "error500", {})
            /\ UNCHANGED <<students, seq>>
       ELSE /\ students' = students \cup {row}
            /\ seq' = [seq EXCEPT !.student = @ + 1]
            /\ response' = Response("signup", Anonymous, 0, "redirect:student_login", {})

\* Visitors send signups with the same and with different ID, NEMIS number,
\* admission number and e-mail, one at a time or overlapping.
SignupRaceData ==
    { SignupBase,
      SignupNemis,
      [SignupBase EXCEPT !.admission_number = TextA2, !.email = TextE2],
      [SignupNemis EXCEPT !.admission_number = TextA1, !.email = TextE1],
      [SignupBase EXCEPT !.id_number = Id123456] }
SignupBegin == \E d \in SignupRaceData : signup_begin(d)
SignupCreateUser == \E r \in inflight : signup_create_user(r)
SignupCreateStudent == \E r \in inflight : signup_create_student(r)
SignupWhole ==
    /\ inflight = {}
    /\ \E d \in SignupRaceData : signup_view(Anonymous, d)

NextSignupRace ==
    \/ SignupBegin
    \/ SignupCreateUser
    \/ SignupCreateStudent
    \/ SignupWhole

SpecSignupRace == Init /\ [][NextSignupRace]_vars

\* ---------------------------------------------------------------- C29
\* the accounts made by signups that have run to their end
SignedUpUsers ==
    {u \in users : u \notin InitUsers /\ \A r \in inflight : r.user # u.id}

\* C29: in every reachable state, also with overlapping signups that use the
\* same ID, NEMIS number, admission number or e-mail, every User created by a
\* signup has exactly one Student (a failed signup leaves neither), and no
\* two Students share an id_number or a nemis_number.
C29_UserHasOneStudent ==
    /\ \A u \in SignedUpUsers : Cardinality({s \in students : s.user = u.id}) = 1
    /\ \A s, t \in students :
          s.id # t.id =>
              /\ s.id_number # NoneText => s.id_number # t.id_number
              /\ s.nemis_number # NoneText => s.nemis_number # t.nemis_number

\* ---------------------------------------------------------------- C30
\* the applications that the step removed
DeletedByTicket == applications \ applications'
\* the step was an answer with allow_reapply that deleted an application
ReapplyDeletion ==
    /\ response'.view = "officer_support_request_detail"
    /\ DeletedByTicket # {}
\* the step stored a new application for the student
AppliedAgain(sid) ==
    /\ response'.view = "apply_bursary"
    /\ \E a \in applications' \ applications : a.student = sid
    /\ \E r \in supportRequests : r.student = sid /\ r.resolved

\* C30: the deletion of the allow_reapply action removes one application of
\* the ticket's student and that application's supporting documents, and
\* nothing else: accounts, Student, guardian and sibling rows are unchanged
\* and no support request is removed, so the guardians and siblings entered
\* with the deleted application are still the student's when the student
\* applies again.
C30_DeletionRemovesApplicationOnly ==
    [][ /\ ReapplyDeletion =>
              /\ applications' = applications \ DeletedByTicket
              /\ Cardinality(DeletedByTicket) = 1
              /\ \A a \in DeletedByTicket :
                    \E r \in supportRequests : r.id = response'.target /\ r.student = a.student
              /\ documents' = {doc \in documents :
                                  \A a \in DeletedByTicket : doc.application # a.id}
              /\ users' = users
              /\ students' = students
              /\ guardians' = guardians
              /\ siblings' = siblings
              /\ {[id |-> r.id, student |-> r.student] : r \in supportRequests'}
                    = {[id |-> r.id, student |-> r.student] : r \in supportRequests}
        /\ \A sid \in StudentIds :
              AppliedAgain(sid) =>
                  /\ \A g \in guardians : g.student = sid =>
                        \E q \in guardians' : q.id = g.id /\ q.student = sid
                  /\ \A b \in siblings : b.student = sid => b \in siblings'
      ]_vars

\* a student's first application was deleted with its document through a
\* ticket and the student has applied again: the guardian and the sibling of
\* the first application are still the student's
C30_Witness ==
    /\ response.view = "apply_bursary"
    /\ \E a \in applications : a.id = 2 /\ a.student = 1
    /\ ~\E a \in applications : a.id = 1
    /\ ~\E doc \in documents : doc.application = 1
    /\ \E g \in guardians : g.id = 1 /\ g.student = 1
    /\ \E b \in siblings : b.id = 1 /\ b.student = 1
    /\ \E r \in supportRequests : r.student = 1 /\ r.resolved

====
